---- MODULE Spec2Model ----
(***************************************************************************)
(* A model of estragon: the deploy / undeploy subcommands with the         *)
(* ownership ledger (own.json) and the destination file tree, and the pure *)
(* functions they rest on (path resolution, environment-key selection,     *)
(* configuration layering).                                                *)
(*                                                                         *)
(* Strings are TLA+ strings; Len, SubSeq and \o act on them character by   *)
(* character, so the string functions of the source are computed, not      *)
(* assumed.                                                                *)
(***************************************************************************)
EXTENDS Integers, Sequences, FiniteSets, TLC

VARIABLES
    fs,      \* the destination file tree: path -> "absent", "dir", or the creator of the file
    ledger,  \* own.json: bundle name -> list of owned paths (a function on the recorded bundles)
    last,    \* the last subcommand run: its arguments, its results, what it removed
    runs,    \* the number of subcommand runs so far
    arg,     \* the arguments of the last pure-function call
    res      \* the result of the last pure-function call

vars == <<fs, ledger, last, runs, arg, res>>

(***************************************************************************)
(* Strings and sequences                                                   *)
(***************************************************************************)

Char(s, i) == SubSeq(s, i, i)

Range(q) == {q[i] : i \in 1..Len(q)}

RECURSIVE LastIndex(_, _, _)
\* The last position <= i of character c in s, 0 when there is none.
LastIndex(s, c, i) ==
    IF i = 0 THEN 0
    ELSE IF Char(s, i) = c THEN i
    ELSE LastIndex(s, c, i - 1)

RECURSIVE TrimSlashes(_)
\* s without its trailing slashes, a lone "/" kept.
TrimSlashes(s) ==
    IF Len(s) > 1 /\ Char(s, Len(s)) = "/" THEN TrimSlashes(SubSeq(s, 1, Len(s) - 1))
    ELSE s

RECURSIVE SqueezeSlashes(_)
\* s with every run of slashes replaced by one slash.
SqueezeSlashes(s) ==
    IF Len(s) < 2 THEN s
    ELSE IF Char(s, 1) = "/" /\ Char(s, 2) = "/" THEN SqueezeSlashes(Tail(s))
    ELSE Char(s, 1) \o SqueezeSlashes(Tail(s))

RECURSIVE DropDotElements(_, _)
\* s without its "." elements; atStart says s starts a path element.
DropDotElements(s, atStart) ==
    IF s = "" THEN ""
    ELSE IF atStart /\ Char(s, 1) = "." /\ (Len(s) = 1 \/ Char(s, 2) = "/")
    THEN IF Len(s) <= 2 THEN "" ELSE DropDotElements(SubSeq(s, 3, Len(s)), TRUE)
    ELSE Char(s, 1) \o DropDotElements(Tail(s), Char(s, 1) = "/")

\* filepath.Clean on paths without ".." elements: runs of slashes become one slash,
\* "." elements and trailing slashes are dropped, the empty path is ".".
Clean(s) ==
    LET t == TrimSlashes(DropDotElements(SqueezeSlashes(s), TRUE))
    IN  IF t = "" THEN "." ELSE t

\* filepath.Join of two elements: empty elements are dropped, the rest cleaned.
Join(a, b) ==
    IF a = "" /\ b = "" THEN ""
    ELSE IF a = "" THEN Clean(b)
    ELSE IF b = "" THEN Clean(a)
    ELSE Clean(a \o "/" \o b)

\* filepath.Dir: the path up to its last slash, cleaned; "." without a slash.
Dir(p) == Clean(SubSeq(p, 1, LastIndex(p, "/", Len(p))))

\* filepath.Base: the last element of the path.
Base(p) ==
    IF p = "" THEN "."
    ELSE LET t == TrimSlashes(p)
             i == LastIndex(t, "/", Len(t))
         IN  IF t = "/" THEN "/" ELSE SubSeq(t, i + 1, Len(t))

(***************************************************************************)
(* Path expansion (subcmd.pathExpander) and "dot-" prefixes                *)
(***************************************************************************)

\* The characters of a shell variable name (os.Expand: letters, digits, underscore).
NameChars ==
    {"a", "b", "c", "d", "e", "f", "g", "h", "i", "j", "k", "l", "m", "n", "o", "p",
     "q", "r", "s", "t", "u", "v", "w", "x", "y", "z", "A", "B", "C", "D", "E", "F",
     "G", "H", "I", "J", "K", "L", "M", "N", "O", "P", "Q", "R", "S", "T", "U", "V",
     "W", "X", "Y", "Z", "0", "1", "2", "3", "4", "5", "6", "7", "8", "9", "_"}

\* The process environment after RunSubcmd has set the variables of .estragon/envvars:
\* Q is set, every other variable is unset.
Environ == [Q |-> "/q"]

\* os.UserHomeDir.
HomeDir == "/h"

RECURSIVE ReplaceAll(_, _, _)
\* strings.ReplaceAll for a one-character old string c.
ReplaceAll(s, c, new) ==
    IF s = "" THEN ""
    ELSE IF Char(s, 1) = c THEN new \o ReplaceAll(Tail(s), c, new)
    ELSE Char(s, 1) \o ReplaceAll(Tail(s), c, new)

RECURSIVE NameLen(_)
\* The length of the variable name s starts with: its longest prefix of name characters.
NameLen(s) ==
    IF s = "" \/ Char(s, 1) \notin NameChars THEN 0 ELSE 1 + NameLen(Tail(s))

RECURSIVE OsExpand(_, _)
\* os.Expand with the mapping of pathExpander.expand: a set variable is replaced by its
\* value, an unset one by the empty string, and err keeps the first unset one's error.
\* A "$" that no name follows stays.
OsExpand(s, err) ==
    IF s = "" THEN [s |-> "", err |-> err]
    ELSE IF Char(s, 1) = "$" /\ NameLen(Tail(s)) > 0
    THEN LET n    == NameLen(Tail(s))
             k    == SubSeq(s, 2, n + 1)
             set  == k \in DOMAIN Environ
             err2 == IF err = "nil" /\ ~set
                     THEN "Environment variable " \o k \o " is not set"
                     ELSE err
             rest == OsExpand(SubSeq(s, n + 2, Len(s)), err2)
         IN  [s |-> (IF set THEN Environ[k] ELSE "") \o rest.s, err |-> rest.err]
    ELSE LET rest == OsExpand(Tail(s), err)
         IN  [s |-> Char(s, 1) \o rest.s, err |-> rest.err]

\* pathExpander.expand: "~" becomes the home directory, "*" the bundle name, then the
\* environment variables are expanded.
expand(s, dot) == OsExpand(ReplaceAll(ReplaceAll(s, "~", HomeDir), "*", dot), "nil")

RECURSIVE DotPrefixFrom(_, _)
\* expandDotPrefixes from position i: "dot-" at the start of the path or right after a
\* slash becomes ".".
DotPrefixFrom(path, i) ==
    IF i > Len(path) THEN ""
    ELSE IF /\ (i = 1 \/ Char(path, i - 1) = "/")
            /\ i + 3 <= Len(path)
            /\ SubSeq(path, i, i + 3) = "dot-"
    THEN "." \o DotPrefixFrom(path, i + 4)
    ELSE Char(path, i) \o DotPrefixFrom(path, i + 1)

expandDotPrefixes(path) == DotPrefixFrom(path, 1)

(***************************************************************************)
(* The placement resolver (package dotfile)                                *)
(* A rule map and a file map are functions on their keys; a Resolver r is  *)
(* [dotRoot, outRoot, dotPrefix, dot], dot being the bundle its expander   *)
(* was made for.                                                           *)
(***************************************************************************)

RECURSIVE splitLoopNonEmpty(_, _, _)
\* splitLoop climbing past the directories whose rule has the empty value.
splitLoopNonEmpty(dir, subpath, rules) ==
    IF (dir \notin DOMAIN rules \/ rules[dir] = "") /\ Dir(dir) # "."
    THEN splitLoopNonEmpty(Dir(dir), Join(Base(dir), subpath), rules)
    ELSE [dir |-> dir, subpath |-> subpath, ok |-> dir \in DOMAIN rules]

RECURSIVE splitLoop(_, _, _)
\* The loop of splitSubdirRule: climb from dir until a directory with a rule is found or
\* the top-level directory is reached.
splitLoop(dir, subpath, rules) ==
    IF dir \notin DOMAIN rules /\ Dir(dir) # "."
    THEN splitLoop(Dir(dir), Join(Base(dir), subpath), rules)
    ELSE [dir |-> dir, subpath |-> subpath, ok |-> dir \in DOMAIN rules]

splitSubdirRule(file, rules) == splitLoop(Dir(file), Base(file), rules)

\* resolveSubdirRule expanding the "dot-" segments of the whole destination.
resolveSubdirRuleWhole(file, rules, dotPrefix) ==
    LET sp == splitSubdirRule(file, rules)
    IN  IF sp.ok
        THEN IF rules[sp.dir] = ""
             THEN [out |-> "", ok |-> TRUE]
             ELSE [out |-> IF dotPrefix
                           THEN expandDotPrefixes(Join(rules[sp.dir], sp.subpath))
                           ELSE Join(rules[sp.dir], sp.subpath),
                   ok  |-> TRUE]
        ELSE [out |-> "", ok |-> FALSE]

resolveSubdirRule(file, rules, dotPrefix) ==
    LET sp == splitSubdirRule(file, rules)
    IN  IF sp.ok
        THEN IF rules[sp.dir] = ""
             THEN [out |-> "", ok |-> TRUE]
             ELSE [out |-> Join(rules[sp.dir],
                                IF dotPrefix THEN expandDotPrefixes(sp.subpath)
                                ELSE sp.subpath),
                   ok  |-> TRUE]
        ELSE [out |-> "", ok |-> FALSE]

\* expandResolvedPaths leaving out the entries whose paths do not expand.
expandResolvedPathsSkipping(fileMap, r) ==
    LET outOf(f) == IF fileMap[f] = ""
                    THEN Join(r.outRoot,
                              IF r.dotPrefix THEN expandDotPrefixes(f) ELSE f)
                    ELSE fileMap[f]
        src(f)   == expand(Join(r.dotRoot, f), r.dot)
        dst(f)   == expand(outOf(f), r.dot)
        good     == {f \in DOMAIN fileMap : src(f).err = "nil" /\ dst(f).err = "nil"}
        keys     == {src(f).s : f \in good}
    IN  [err |-> "nil", isNil |-> FALSE,
         map |-> [k \in keys |-> dst(CHOOSE f \in good : src(f).s = k).s]]

\* expandResolvedPaths. The paths of this model hold at most one unset variable name,
\* so the error does not depend on the order Go walks the map in.
expandResolvedPaths(fileMap, r) ==
    LET outOf(f) == IF fileMap[f] = ""
                    THEN Join(r.outRoot,
                              IF r.dotPrefix THEN expandDotPrefixes(f) ELSE f)
                    ELSE fileMap[f]
        src(f)   == expand(Join(r.dotRoot, f), r.dot)
        dst(f)   == expand(outOf(f), r.dot)
        bad      == {f \in DOMAIN fileMap : src(f).err # "nil" \/ dst(f).err # "nil"}
        keys     == {src(f).s : f \in DOMAIN fileMap}
    IN  IF bad # {}
        THEN LET f == CHOOSE g \in bad : TRUE
             IN  [err |-> IF src(f).err # "nil" THEN src(f).err ELSE dst(f).err,
                  isNil |-> TRUE, map |-> <<>>]
        ELSE [err |-> "nil", isNil |-> FALSE,
              map |-> [k \in keys |->
                         dst(CHOOSE f \in DOMAIN fileMap : src(f).s = k).s]]

\* The file map DeepResolve builds before expansion.
DeepFileMap(files, rules, dotPrefix) ==
    LET ignoreRuleless == "" \in DOMAIN rules
        look(f) == IF f \in DOMAIN rules
                   THEN [out |-> rules[f], ok |-> TRUE]
                   ELSE resolveSubdirRule(f, rules, dotPrefix)
        kept == {f \in Range(files) :
                    IF look(f).ok THEN look(f).out # "" ELSE ~ignoreRuleless}
    IN  [f \in kept |-> IF look(f).ok THEN look(f).out ELSE ""]

DeepResolve(files, rules, r) ==
    expandResolvedPaths(DeepFileMap(files, rules, r.dotPrefix), r)

\* The file map ShallowResolve builds before expansion: keyed by rule key.
ShallowFileMap(files, rules) ==
    LET key(f) == IF f \in DOMAIN rules THEN f ELSE splitSubdirRule(f, rules).dir
        ok(f)  == f \in DOMAIN rules \/ splitSubdirRule(f, rules).ok
        kept   == {key(f) : f \in {g \in Range(files) : ok(g) /\ rules[key(g)] # ""}}
    IN  IF kept = {} THEN [k \in {""} |-> ""] ELSE [k \in kept |-> rules[k]]

ShallowResolve(files, rules, r) ==
    expandResolvedPaths(ShallowFileMap(files, rules), [r EXCEPT !.dotPrefix = FALSE])

(***************************************************************************)
(* The destination file tree                                               *)
(* fs maps every path of Paths to "absent", to "dir" (a directory), or to  *)
(* the creator of the file or link at the path: a bundle name, or "user"   *)
(* for a file estragon did not create. "/" is a directory that is never    *)
(* empty (it holds the estragon directory itself).                         *)
(***************************************************************************)

Paths == {"/p", "/p/r", "/q"}

Dots == {"X", "Y"}

\* The directory that holds estragon.yaml and the bundles (SubcmdRunner.dir).
EstragonDir == "/e"

\* q is a proper ancestor directory of p.
IsUnder(p, q) == Len(p) > Len(q) /\ SubSeq(p, 1, Len(q) + 1) = q \o "/"

Tree(p) == {q \in Paths : q = p \/ IsUnder(q, p)}

\* Every existing path lies in a directory.
ConsistentFs(f) ==
    \A p, q \in Paths : IsUnder(p, q) /\ f[p] # "absent" => f[q] = "dir"

\* os.Stat: "error" (ENOTDIR) below a file, else whether the path exists.
Stat(f, p) ==
    IF \E q \in Paths : IsUnder(p, q) /\ f[q] \notin {"absent", "dir"} THEN "error"
    ELSE IF f[p] = "absent" THEN "notexist"
    ELSE "exists"

\* os.RemoveAll of an existing path: the path and everything below it.
RemoveAll(f, p) == [q \in Paths |-> IF q \in Tree(p) THEN "absent" ELSE f[q]]

IsEmptyDir(f, p) == f[p] = "dir" /\ \A q \in Paths : IsUnder(q, p) => f[q] = "absent"

\* A step's outcome on the file tree: the error ("nil": none), the tree after it and the
\* paths it removed or overwrote.
Outcome(err, f, lost) == [err |-> err, fs |-> f, lost |-> lost]

\* The last step of MkdirAll: the directory itself, once its parents exist.
mkdirIn(up, dir) ==
    IF up.err # "nil" THEN up ELSE Outcome("nil", [up.fs EXCEPT ![dir] = "dir"], {})

RECURSIVE MkdirAll(_, _)
\* os.MkdirAll: the directory and its missing parents; an error when a file is in the way.
MkdirAll(f, dir) ==
    IF dir \notin Paths \/ f[dir] = "dir" THEN Outcome("nil", f, {})
    ELSE IF f[dir] # "absent"
    THEN Outcome("mkdir " \o dir \o ": not a directory", f, {})
    ELSE mkdirIn(MkdirAll(f, Dir(dir)), dir)

\* os.Symlink in the tree mk that MkdirAll left: it fails on an existing path.
symlinkIn(mk, link, dot) ==
    IF mk.err # "nil" THEN mk
    ELSE IF mk.fs[link] # "absent"
    THEN Outcome("symlink " \o link \o ": file exists", mk.fs, {})
    ELSE Outcome("nil", [mk.fs EXCEPT ![link] = dot], {})

\* symlink(file, link): the parents are made, then the link.
symlink(f, link, dot) == symlinkIn(MkdirAll(f, Dir(link)), link, dot)

\* os.Create and the copy in the tree mk that MkdirAll left: an existing file is
\* truncated (lost: the path whose content is overwritten), a directory is an error.
createIn(mk, newFile, dot) ==
    IF mk.err # "nil" THEN mk
    ELSE IF mk.fs[newFile] = "dir"
    THEN Outcome("open " \o newFile \o ": is a directory", mk.fs, {})
    ELSE Outcome("nil", [mk.fs EXCEPT ![newFile] = dot],
                 IF mk.fs[newFile] = "absent" THEN {} ELSE {newFile})

\* copyDotfile(existing, newFile): the parents are made, then the copy.
copyDotfile(f, newFile, dot) == createIn(MkdirAll(f, Dir(newFile)), newFile, dot)

\* os.Remove: a file, a link or an empty directory.
Remove(f, p) ==
    IF Stat(f, p) # "exists" \/ (f[p] = "dir" /\ ~IsEmptyDir(f, p))
    THEN Outcome("remove " \o p \o ": cannot remove", f, {})
    ELSE Outcome("nil", [f EXCEPT ![p] = "absent"], {p})

RECURSIVE removeEmptyParentsFrom(_, _, _)
\* The loop of removeEmptyParents from directory dir: empty directories are removed
\* upwards, a directory with entries ends the walk without error.
removeEmptyParentsFrom(f, dir, lost) ==
    IF dir = "." \/ dir \notin Paths THEN Outcome("nil", f, lost)
    ELSE IF f[dir] # "dir"
    THEN Outcome("open " \o dir \o ": cannot read directory", f, lost)
    ELSE IF IsEmptyDir(f, dir)
    THEN removeEmptyParentsFrom([f EXCEPT ![dir] = "absent"], Dir(dir), lost \cup {dir})
    ELSE Outcome("nil", f, lost)

removeEmptyParents(f, file) == removeEmptyParentsFrom(f, Dir(file), {})

\* The outcome of step b made after step a: what both removed.
After(a, b) == Outcome(b.err, b.fs, a.lost \cup b.lost)

(***************************************************************************)
(* The ownership ledger (subcmd.OwnershipManager)                          *)
(***************************************************************************)

\* dotOwn[dot] of the decoded ledger: the nil slice when the bundle has no entry.
OwnedOf(own, dot) == IF dot \in DOMAIN own THEN own[dot] ELSE <<>>

\* ensureOwnershipFile without the ownership test: an existing path is always removed.
ensureOwnershipFileAlways(f, file, owned, force) ==
    IF Stat(f, file) = "error"
    THEN Outcome("stat " \o file \o ": not a directory", f, {})
    ELSE Outcome("nil", RemoveAll(f, file), {q \in Tree(file) : f[q] # "absent"})

\* ensureOwnershipFile removing an existing path before it looks at who owns it.
ensureOwnershipFileRemoving(f, file, owned, force) ==
    IF Stat(f, file) = "error"
    THEN Outcome("stat " \o file \o ": not a directory", f, {})
    ELSE IF Stat(f, file) = "notexist" THEN Outcome("nil", f, {})
    ELSE Outcome(IF owned \/ force THEN "nil"
                 ELSE file \o " exists but is not owned by this directory",
                 RemoveAll(f, file), {q \in Tree(file) : f[q] # "absent"})

\* ensureOwnershipFile: nothing to do for a path that does not exist; an existing path
\* is removed when it is owned or force is set, and is an error otherwise.
ensureOwnershipFile(f, file, owned, force) ==
    IF Stat(f, file) = "error"
    THEN Outcome("stat " \o file \o ": not a directory", f, {})
    ELSE IF Stat(f, file) = "notexist" THEN Outcome("nil", f, {})
    ELSE IF owned \/ force
    THEN Outcome("nil", RemoveAll(f, file), {q \in Tree(file) : f[q] # "absent"})
    ELSE Outcome(file \o " exists but is not owned by this directory", f, {})

RECURSIVE ensureOwnershipLoop(_, _, _, _, _, _)
\* The loop of ensureOwnershipDot from files[i]: ownedFileSet is the set built from the
\* list the call was given, ownedFiles the list being extended, done the outcome of
\* the files before i.
ensureOwnershipLoop(files, i, ownedFileSet, ownedFiles, done, force) ==
    IF done.err # "nil" THEN [owned |-> <<>>, out |-> done]
    ELSE IF i > Len(files) THEN [owned |-> ownedFiles, out |-> done]
    ELSE ensureOwnershipLoop(
             files, i + 1, ownedFileSet,
             IF files[i] \in ownedFileSet THEN ownedFiles
             ELSE Append(ownedFiles, files[i]),
             After(done, ensureOwnershipFile(done.fs, files[i],
                                             files[i] \in ownedFileSet, force)),
             force)

\* ensureOwnershipDot starting the bundle's new list empty.
ensureOwnershipDotFresh(files, ownedFiles, f, force) ==
    ensureOwnershipLoop(files, 1, Range(ownedFiles), <<>>,
                        Outcome("nil", f, {}), force)

\* ensureOwnershipDot: the set of the owned files is built, then the files are walked.
ensureOwnershipDot(files, ownedFiles, f, force) ==
    ensureOwnershipLoop(files, 1, Range(ownedFiles), ownedFiles,
                        Outcome("nil", f, {}), force)

\* writeOwnership writing the ledger back whatever ensureOwnershipDot returned.
writeOwnershipAlways(dot, own, r) ==
    [err  |-> r.out.err,
     own  |-> [d \in DOMAIN own \cup {dot} |-> IF d = dot THEN r.owned ELSE own[d]],
     fs   |-> r.out.fs,
     lost |-> r.out.lost]

\* The end of EnsureOwnership: the ledger is written back with the bundle's new list
\* only when no path failed.
writeOwnership(dot, own, r) ==
    [err  |-> r.out.err,
     own  |-> IF r.out.err # "nil" THEN own
              ELSE [d \in DOMAIN own \cup {dot} |-> IF d = dot THEN r.owned ELSE own[d]],
     fs   |-> r.out.fs,
     lost |-> r.out.lost]

\* EnsureOwnership: the ledger is read, the bundle's list extended, the ledger written.
EnsureOwnership(files, dot, own, f, force) ==
    writeOwnership(dot, own, ensureOwnershipDot(files, OwnedOf(own, dot), f, force))

\* DisownDot: the bundle's entry is deleted.
DisownDot(own, dot) == [d \in DOMAIN own \ {dot} |-> own[d]]

(***************************************************************************)
(* Deploying the files of a bundle (subcmd.DotfileDeployer)                *)
(* A conf is a resolved config.DotConfig: [Method, Root, DotPrefix, Rules].*)
(***************************************************************************)

\* resolve treating every method it does not know as none.
resolveLenient(conf, files, nilFiles, r) ==
    IF conf.Method \in {"deep", "copy"} THEN DeepResolve(files, conf.Rules, r)
    ELSE IF conf.Method = "shallow" /\ ~nilFiles
    THEN ShallowResolve(files, conf.Rules, r)
    ELSE [err |-> "nil", isNil |-> TRUE, map |-> <<>>]

\* DotfileDeployer.resolve: nilFiles says the bundle has no directory (files is nil).
resolve(conf, files, nilFiles, r) ==
    IF conf.Method \in {"deep", "copy"} THEN DeepResolve(files, conf.Rules, r)
    ELSE IF conf.Method = "shallow"
    THEN IF ~nilFiles THEN ShallowResolve(files, conf.Rules, r)
         ELSE [err |-> "nil", isNil |-> TRUE, map |-> <<>>]
    ELSE IF conf.Method = "none" THEN [err |-> "nil", isNil |-> TRUE, map |-> <<>>]
    ELSE [err |-> conf.Method \o " is not a valid method", isNil |-> TRUE, map |-> <<>>]

RECURSIVE deployLoop(_, _, _, _, _, _, _)
\* DotfileDeployer.deploy walking the file map in the order keys from keys[i]: a link
\* (deep, shallow) or a copy (copy) per entry unless dry, stopping at the first error.
\* done is the outcome of the entries before i.
deployLoop(fileMap, keys, i, method, dot, dry, done) ==
    IF \/ done.err # "nil"
       \/ i > Len(keys)
       \/ dry
       \/ method \notin {"deep", "shallow", "copy"}
    THEN done
    ELSE deployLoop(fileMap, keys, i + 1, method, dot, dry,
                    After(done, IF method = "copy"
                                THEN copyDotfile(done.fs, fileMap[keys[i]], dot)
                                ELSE symlink(done.fs, fileMap[keys[i]], dot)))

deploy(fileMap, keys, method, dot, dry, f) ==
    deployLoop(fileMap, keys, 1, method, dot, dry, Outcome("nil", f, {}))

\* The orders Go may walk a map with key set S in.
Orders(S) == {q \in [1..Cardinality(S) -> S] : Range(q) = S}

\* The bundles a run may deploy: a resolved configuration with the files found in the
\* bundle's directory (nilFiles: the directory does not exist). Their destinations are
\* paths of Paths. A link to a directory is a leaf of the modelled tree: the shallow
\* layouts link to /q, which has no path of the model below it.
Layouts ==
    {[Method |-> "deep", Root |-> "/p", Rules |-> <<>>,
      files |-> <<"r">>, nilFiles |-> FALSE],
     [Method |-> "copy", Root |-> "/p", Rules |-> <<>>,
      files |-> <<"r">>, nilFiles |-> FALSE],
     [Method |-> "deep", Root |-> "/p", Rules |-> [r |-> "/p"],
      files |-> <<"r">>, nilFiles |-> FALSE],
     [Method |-> "copy", Root |-> "/p", Rules |-> [r |-> "/q"],
      files |-> <<"r">>, nilFiles |-> FALSE],
     [Method |-> "deep", Root |-> "/p", Rules |-> [r |-> "/q", s |-> "/p"],
      files |-> <<"r", "s">>, nilFiles |-> FALSE],
     [Method |-> "copy", Root |-> "/p", Rules |-> [r |-> "/p", s |-> "/p/r"],
      files |-> <<"r", "s">>, nilFiles |-> FALSE],
     [Method |-> "copy", Root |-> "/p", Rules |-> [r |-> "/q", s |-> "/q"],
      files |-> <<"r", "s">>, nilFiles |-> FALSE],
     [Method |-> "shallow", Root |-> "/q", Rules |-> <<>>,
      files |-> <<"r">>, nilFiles |-> FALSE],
     [Method |-> "shallow", Root |-> "/q", Rules |-> <<>>,
      files |-> <<>>, nilFiles |-> TRUE],
     [Method |-> "none", Root |-> "/p", Rules |-> <<>>,
      files |-> <<"r">>, nilFiles |-> FALSE],
     [Method |-> "hard", Root |-> "/p", Rules |-> <<>>,
      files |-> <<"r">>, nilFiles |-> FALSE],
     [Method |-> "deep", Root |-> "/p", Rules |-> [r |-> "$U/q"],
      files |-> <<"r">>, nilFiles |-> FALSE],
     [Method |-> "deep", Root |-> "/p", Rules |-> ("" :> ""),
      files |-> <<"r">>, nilFiles |-> FALSE],
     [Method |-> "shallow", Root |-> "/q", Rules |-> [r |-> "$U"],
      files |-> <<"r">>, nilFiles |-> FALSE],
     [Method |-> "deep", Root |-> "/p", Rules |-> <<>>,
      files |-> <<"r", "$U">>, nilFiles |-> FALSE],
     [Method |-> "deep", Root |-> "$U/p", Rules |-> <<>>,
      files |-> <<"r">>, nilFiles |-> FALSE],
     [Method |-> "hard", Root |-> "$U/p", Rules |-> <<>>,
      files |-> <<"r">>, nilFiles |-> FALSE]}

ConfOf(l) ==
    [Method |-> l.Method, Root |-> l.Root, DotPrefix |-> TRUE, Rules |-> l.Rules]

\* The Resolver NewDotfileDeployer builds for bundle dot.
ResolverOf(dot, conf) ==
    [dotRoot |-> Join(EstragonDir, dot), outRoot |-> conf.Root,
     dotPrefix |-> conf.DotPrefix, dot |-> dot]

\* What DeployFiles computes before it touches the ledger, for each bundle name and
\* layout: the error of expanding the root (method not none) and the result of resolve.
\* Both are functions of the bundle alone, tabulated here once.
Resolved ==
    [dot \in Dots |->
        [l \in Layouts |->
            [rootErr |-> IF l.Method # "none" THEN expand(l.Root, dot).err ELSE "nil",
             rs      |-> resolve(ConfOf(l), l.files, l.nilFiles,
                                 ResolverOf(dot, ConfOf(l)))]]]

\* What a DeployFiles call did: the error it returned, the ledger and the tree it left,
\* the paths it removed or overwrote, and whether and with which list and result it
\* called EnsureOwnership.
Deployed(err, own, f, lost, ownCalled, outFiles, ownErr) ==
    [err |-> err, own |-> own, fs |-> f, lost |-> lost, ownCalled |-> ownCalled,
     outFiles |-> outFiles, ownErr |-> ownErr]

\* The end of DeployFiles: deploy has run on the tree EnsureOwnership left.
deployed(outFiles, eo, dp) ==
    Deployed(dp.err, eo.own, dp.fs, eo.lost \cup dp.lost, TRUE, outFiles, "nil")

\* DeployFiles from the call of EnsureOwnership on: its error ends the call.
ensureThenDeploy(dot, l, dry, depOrder, fileMap, outFiles, eo) ==
    IF eo.err # "nil"
    THEN Deployed(eo.err, eo.own, eo.fs, eo.lost, TRUE, outFiles, eo.err)
    ELSE deployed(outFiles, eo, deploy(fileMap, depOrder, l.Method, dot, dry, eo.fs))

\* DeployFiles once the file map is resolved: outFiles lists its destinations.
deployFileMap(dot, l, force, dry, depOrder, fileMap, outFiles, own, f) ==
    ensureThenDeploy(dot, l, dry, depOrder, fileMap, outFiles,
                     EnsureOwnership(outFiles, dot, own, f, force))

\* DeployFiles for bundle dot with layout l: ownOrder is the order the file map is
\* walked in to list the destinations, depOrder the order deploy walks it in.
DeployFiles(dot, l, force, dry, ownOrder, depOrder, own, f) ==
    IF Resolved[dot][l].rootErr # "nil"
    THEN Deployed(Resolved[dot][l].rootErr, own, f, {}, FALSE, <<>>, "nil")
    ELSE IF Resolved[dot][l].rs.err # "nil"
    THEN Deployed(Resolved[dot][l].rs.err, own, f, {}, FALSE, <<>>, "nil")
    ELSE IF DOMAIN Resolved[dot][l].rs.map = {}
    THEN Deployed("nil", own, f, {}, FALSE, <<>>, "nil")
    ELSE deployFileMap(dot, l, force, dry, depOrder, Resolved[dot][l].rs.map,
                       [i \in 1..Len(ownOrder) |-> Resolved[dot][l].rs.map[ownOrder[i]]],
                       own, f)

(***************************************************************************)
(* Undeploying a bundle (subcmd.DotfileUndeployer)                         *)
(***************************************************************************)

\* One round of the loop of Undeploy: the file is removed, then its empty parents; a
\* file that cannot be removed leaves the tree as it was.
undeployFile(rm, file) ==
    IF rm.err # "nil" THEN rm ELSE After(rm, removeEmptyParents(rm.fs, file))

RECURSIVE undeployLoop(_, _, _, _)
\* The loop of Undeploy over the recorded files from files[i]: nothing is removed when
\* dry; the first error ends the call. done is the outcome of the files before i.
undeployLoop(files, i, dry, done) ==
    IF done.err # "nil" \/ i > Len(files) \/ dry THEN done
    ELSE undeployLoop(files, i + 1, dry,
                      After(done, undeployFile(Remove(done.fs, files[i]), files[i])))

\* disownAfter disowning the bundle after the loop however the loop ended.
disownAnyway(dot, dry, own, lp) ==
    [err  |-> lp.err,
     own  |-> IF dry THEN own ELSE DisownDot(own, dot),
     fs   |-> lp.fs,
     lost |-> lp.lost]

\* The end of Undeploy: the bundle is disowned when no removal failed and not dry.
disownAfter(dot, dry, own, lp) ==
    [err  |-> lp.err,
     own  |-> IF lp.err # "nil" \/ dry THEN own ELSE DisownDot(own, dot),
     fs   |-> lp.fs,
     lost |-> lp.lost]

Undeploy(dot, dry, own, f) ==
    IF dot \notin DOMAIN own THEN [err |-> "nil", own |-> own, fs |-> f, lost |-> {}]
    ELSE disownAfter(dot, dry, own,
                     undeployLoop(own[dot], 1, dry, Outcome("nil", f, {})))

(***************************************************************************)
(* The deploy and undeploy subcommands as a state machine                  *)
(***************************************************************************)

\* The file trees a run may start from: files of the user, directories, nothing.
InitFs == {f \in [Paths -> {"absent", "user", "dir"}] : ConsistentFs(f)}

\* The number of subcommand runs a behaviour holds.
MaxRuns == 3

NoCall ==
    [op |-> "init", dot |-> "", force |-> FALSE, dry |-> FALSE, method |-> "",
     ownCalled |-> FALSE, outFiles |-> <<>>, ownErr |-> "nil", err |-> "nil",
     lost |-> {}]

Init ==
    /\ fs \in InitFs
    /\ ledger = <<>>
    /\ last = NoCall
    /\ runs = 0
    /\ arg = <<>>
    /\ res = <<>>

\* The state a deploy run leaves: d is what DeployFiles did.
deployRan(dot, l, force, dry, d) ==
    /\ fs' = d.fs
    /\ ledger' = d.own
    /\ last' = [op |-> "deploy", dot |-> dot, force |-> force, dry |-> dry,
                method |-> l.Method, ownCalled |-> d.ownCalled,
                outFiles |-> d.outFiles, ownErr |-> d.ownErr,
                err |-> d.err, lost |-> d.lost]

\* estragon deploy [--dry] [--force] dot: deploySubcmd deploys the files of the bundle.
deploySubcmd(dot, l, force, dry) ==
    /\ runs < MaxRuns
    /\ runs' = runs + 1
    /\ \E ownOrder \in Orders(DOMAIN Resolved[dot][l].rs.map),
          depOrder \in Orders(DOMAIN Resolved[dot][l].rs.map) :
           deployRan(dot, l, force, dry,
                     DeployFiles(dot, l, force, dry, ownOrder, depOrder, ledger, fs))
    /\ UNCHANGED <<arg, res>>

\* The state an undeploy run leaves: u is what Undeploy did.
undeployRan(dot, dry, u) ==
    /\ fs' = u.fs
    /\ ledger' = u.own
    /\ last' = [op |-> "undeploy", dot |-> dot, force |-> FALSE, dry |-> dry,
                method |-> "", ownCalled |-> FALSE, outFiles |-> <<>>,
                ownErr |-> "nil", err |-> u.err, lost |-> u.lost]

\* estragon undeploy [--dry] dot.
undeploySubcmd(dot, dry) ==
    /\ runs < MaxRuns
    /\ runs' = runs + 1
    /\ undeployRan(dot, dry, Undeploy(dot, dry, ledger, fs))
    /\ UNCHANGED <<arg, res>>

Next ==
    \/ \E dot \in Dots, l \in Layouts, force \in BOOLEAN, dry \in BOOLEAN :
           deploySubcmd(dot, l, force, dry)
    \/ \E dot \in Dots, dry \in BOOLEAN : undeploySubcmd(dot, dry)

Spec == Init /\ [][Next]_vars

(***************************************************************************)
(* Ownership and the dry flag                                              *)
(***************************************************************************)

\* The error ensureOwnershipFile returns for an existing path the bundle does not own.
OwnershipConflict(p) == p \o " exists but is not owned by this directory"

\* A destination of the run just made that an earlier destination of it lies above.
Below(files, p) == \E q \in Range(files) : q # p /\ IsUnder(p, q)

\* C1: without the force flag, a deploy removes or overwrites no path that existed
\* before the run unless the ledger records that path under the deploying bundle,
\* whatever deploys and undeploys came before.
C1_UnforcedDeployKeepsUnowned ==
    [][(last'.op = "deploy" /\ ~last'.force)
         => {q \in last'.lost : fs[q] # "absent"}
                \subseteq Range(OwnedOf(ledger, last'.dot))]_vars

\* C2: a deploy whose destinations do not exist records them under the bundle and
\* passes the ownership check; the deploy of the same bundle to the same destinations
\* right after a successful one passes it again; a deploy of a bundle to an existing
\* path the ledger does not record under it fails, with the ownership conflict of that
\* path when it is the only destination, unless force is set, and then it passes.
C2_OwnershipSequence ==
    [][(last'.op = "deploy" /\ last'.ownCalled)
         => /\ (\A p \in Range(last'.outFiles) : Stat(fs, p) = "notexist")
                  => /\ last'.ownErr = "nil"
                     /\ Range(last'.outFiles) \subseteq Range(OwnedOf(ledger', last'.dot))
            /\ ( /\ last.op = "deploy" /\ last.ownCalled /\ last.err = "nil"
                 /\ last.dot = last'.dot
                 /\ Range(last.outFiles) = Range(last'.outFiles) )
                  => last'.ownErr = "nil"
            /\ \A p \in Range(last'.outFiles) :
                 ( /\ Stat(fs, p) = "exists"
                   /\ p \notin Range(OwnedOf(ledger, last'.dot))
                   /\ ~Below(last'.outFiles, p) )
                  => IF last'.force
                     THEN (\A q \in Range(last'.outFiles) : Stat(fs, q) # "error")
                              => last'.ownErr = "nil"
                     ELSE /\ last'.ownErr # "nil"
                          /\ ledger' = ledger
                          /\ last'.outFiles = <<p>>
                               => last'.ownErr = OwnershipConflict(p)]_vars

\* C2 happens: bundle Y was just refused /p, which exists as deployed by X and is
\* recorded under X and not under Y.
C2_Witness ==
    /\ last.op = "deploy" /\ last.dot = "Y" /\ ~last.force
    /\ last.outFiles = <<"/p">>
    /\ last.ownErr = OwnershipConflict("/p")
    /\ fs["/p"] = "X"
    /\ "/p" \in Range(OwnedOf(ledger, "X"))
    /\ "/p" \notin Range(OwnedOf(ledger, "Y"))

\* C3: a deploy with the dry flag leaves the file tree and the ledger as they were.
C3_DryDeployChangesNothing ==
    [][(last'.op = "deploy" /\ last'.dry) => (fs' = fs /\ ledger' = ledger)]_vars

(***************************************************************************)
(* Regular expressions (package regexp as package env uses it): the        *)
(* literals, ".", "*", "+", "?", "|", groups, "^" and "$".                 *)
(***************************************************************************)

\* The character of s at position i, "" outside s.
At(s, i) == IF i \in 1..Len(s) THEN SubSeq(s, i, i) ELSE ""

\* The result of parsing up to position i: the node n, the capture groups g opened so
\* far, and whether the syntax was accepted.
Parsed(n, i, g) == [n |-> n, i |-> i, g |-> g, ok |-> TRUE]

SyntaxError == [n |-> [t |-> "eps"], i |-> 0, g |-> 0, ok |-> FALSE]

\* The node of two parsed operands, the right one parsed last.
nodeWith(t, l, rest) ==
    IF ~rest.ok THEN rest ELSE [rest EXCEPT !.n = [t |-> t, l |-> l, r |-> rest.n]]

\* The end of a group: the closing parenthesis is required; k is 0 without capture.
closeGroup(s, inner, k) ==
    IF inner.ok /\ At(s, inner.i) = ")"
    THEN Parsed([t |-> "grp", e |-> inner.n, k |-> k], inner.i + 1, inner.g)
    ELSE SyntaxError

\* A repetition operator after the atom a. Two operators in a row are an error for
\* "**", "*+", "+*" and the like; the non-greedy forms ("*?") are outside the model.
repeatOf(s, a) ==
    IF ~a.ok \/ At(s, a.i) \notin {"*", "+", "?"} THEN a
    ELSE IF At(s, a.i + 1) \in {"*", "+", "?"} THEN SyntaxError
    ELSE Parsed(CASE At(s, a.i) = "*" -> [t |-> "star", e |-> a.n]
                  [] At(s, a.i) = "+" -> [t |-> "cat", l |-> a.n,
                                          r |-> [t |-> "star", e |-> a.n]]
                  [] OTHER            -> [t |-> "alt", l |-> a.n, r |-> [t |-> "eps"]],
                a.i + 1, a.g)

RECURSIVE parseAlt(_, _, _)
RECURSIVE parseCat(_, _, _)

\* One atom: a group, an operator without argument (an error), ".", "^", "$", a literal.
parseAtom(s, i, g) ==
    CASE At(s, i) = "(" ->
             IF SubSeq(s \o "  ", i + 1, i + 2) = "?:"
             THEN closeGroup(s, parseAlt(s, i + 3, g), 0)
             ELSE closeGroup(s, parseAlt(s, i + 1, g + 1), g + 1)
      [] At(s, i) \in {"*", "+", "?", ""} -> SyntaxError
      [] At(s, i) = "." -> Parsed([t |-> "any"], i + 1, g)
      [] At(s, i) = "^" -> Parsed([t |-> "bol"], i + 1, g)
      [] At(s, i) = "$" -> Parsed([t |-> "eol"], i + 1, g)
      [] OTHER -> Parsed([t |-> "chr", c |-> At(s, i)], i + 1, g)

\* The concatenation after its first operand p.
catOf(s, p) == IF ~p.ok THEN p ELSE nodeWith("cat", p.n, parseCat(s, p.i, p.g))

\* A concatenation: operands up to "|", ")" or the end.
parseCat(s, i, g) ==
    IF At(s, i) \in {"|", ")", ""} THEN Parsed([t |-> "eps"], i, g)
    ELSE catOf(s, repeatOf(s, parseAtom(s, i, g)))

\* The alternation after its first alternative c.
altOf(s, c) ==
    IF ~c.ok \/ At(s, c.i) # "|" THEN c
    ELSE nodeWith("alt", c.n, parseAlt(s, c.i + 1, c.g))

\* An alternation: concatenations separated by "|".
parseAlt(s, i, g) == altOf(s, parseCat(s, i, g))

\* The end of regexp.Compile: the whole expression must have been read.
compiled(expr, p) ==
    [ok |-> p.ok /\ p.i = Len(expr) + 1, n |-> p.n, g |-> p.g]

\* regexp.Compile: ok is FALSE when Compile returns an error.
Compile(expr) == compiled(expr, parseAlt(expr, 1, 0))

\* A way of matching a node: the position after the match and the captures.
Thread(i, caps) == [i |-> i, caps |-> caps]

\* The threads rs with group k set to the text matched from position i.
capture(k, s, i, rs) ==
    [j \in 1..Len(rs) |-> [rs[j] EXCEPT !.caps[k] = SubSeq(s, i, rs[j].i - 1)]]

\* The threads that consumed text from position i.
advancing(i, rs) == SelectSeq(rs, LAMBDA r : r.i > i)

RECURSIVE run(_, _, _, _)
RECURSIVE runEach(_, _, _)

\* The ways node n matches s from each of the threads rs, in order of preference.
runEach(n, s, rs) ==
    IF rs = <<>> THEN <<>>
    ELSE run(n, s, Head(rs).i, Head(rs).caps) \o runEach(n, s, Tail(rs))

\* The ways node n matches s from position i, in order of preference (leftmost-first:
\* the left alternative before the right one, a longer repetition before a shorter).
run(n, s, i, caps) ==
    CASE n.t = "eps"  -> <<Thread(i, caps)>>
      [] n.t = "chr"  -> IF At(s, i) = n.c THEN <<Thread(i + 1, caps)>> ELSE <<>>
      [] n.t = "any"  -> IF i <= Len(s) THEN <<Thread(i + 1, caps)>> ELSE <<>>
      [] n.t = "bol"  -> IF i = 1 THEN <<Thread(i, caps)>> ELSE <<>>
      [] n.t = "eol"  -> IF i = Len(s) + 1 THEN <<Thread(i, caps)>> ELSE <<>>
      [] n.t = "cat"  -> runEach(n.r, s, run(n.l, s, i, caps))
      [] n.t = "alt"  -> run(n.l, s, i, caps) \o run(n.r, s, i, caps)
      [] n.t = "grp"  -> IF n.k = 0 THEN run(n.e, s, i, caps)
                         ELSE capture(n.k, s, i, run(n.e, s, i, caps))
      [] n.t = "star" -> runEach(n, s, advancing(i, run(n.e, s, i, caps)))
                             \o <<Thread(i, caps)>>

\* The matches of re in s that start at position i, the preferred one first.
matchesAt(re, s, i) == run(re.n, s, i, [k \in 1..re.g |-> ""])

\* Regexp.MatchString: some substring of s matches.
MatchString(re, s) == \E i \in 1..(Len(s) + 1) : matchesAt(re, s, i) # <<>>

(***************************************************************************)
(* Environment keys (package env)                                          *)
(***************************************************************************)

RECURSIVE Fields(_)
\* strings.Fields: the maximal runs of non-space characters of s.
Fields(s) ==
    IF s = "" THEN <<>>
    ELSE IF At(s, 1) = " " THEN Fields(Tail(s))
    ELSE LET rest == Fields(Tail(s))
         IN  IF rest # <<>> /\ At(s, 2) # " "
             THEN <<At(s, 1) \o Head(rest)>> \o Tail(rest)
             ELSE <<At(s, 1)>> \o rest

RECURSIVE JoinFields(_)
\* strings.Join with a space.
JoinFields(q) ==
    IF q = <<>> THEN ""
    ELSE IF Len(q) = 1 THEN q[1]
    ELSE q[1] \o " " \o JoinFields(Tail(q))

\* loneExclamation, "(^| )!($| )", matched at position i of s: the position after the
\* match, 0 when there is none. "^" holds at the start of the text only.
loneExclamation(s, i) ==
    IF (i = 1 /\ At(s, 1) = "!") \/ (At(s, i) = " " /\ At(s, i + 1) = "!")
    THEN IF At(s, i) = "!"
         THEN (IF Len(s) = 1 THEN 2 ELSE IF At(s, 2) = " " THEN 3 ELSE 0)
         ELSE (IF Len(s) = i + 1 THEN i + 2 ELSE IF At(s, i + 2) = " " THEN i + 3 ELSE 0)
    ELSE 0

RECURSIVE loneIndex(_, _)
\* The start of the leftmost match of loneExclamation at or after i, 0 when none.
loneIndex(s, i) ==
    IF i > Len(s) THEN 0
    ELSE IF loneExclamation(s, i) # 0 THEN i
    ELSE loneIndex(s, i + 1)

\* loneExclamation.Split(s, 2): s itself without a match, else the text before the
\* first match and the text after it.
loneSplit(s) ==
    LET i == loneIndex(s, 1)
    IN  IF i = 0 THEN <<s>>
        ELSE <<SubSeq(s, 1, i - 1), SubSeq(s, loneExclamation(s, i), Len(s))>>

RECURSIVE loneReplace(_, _)
\* loneExclamation.ReplaceAllLiteralString(s, " ") from position i on: the matches are
\* taken from left to right and do not overlap.
loneReplace(s, i) ==
    IF i > Len(s) THEN ""
    ELSE IF loneExclamation(s, i) # 0 THEN " " \o loneReplace(s, loneExclamation(s, i))
    ELSE At(s, i) \o loneReplace(s, i + 1)

\* newPattern: the required (good) and forbidden (bad) elements of a key.
newPattern(s) ==
    LET parts == loneSplit(s)
    IN  [good |-> Fields(parts[1]),
         bad  |-> IF Len(parts) = 2 THEN Fields(loneReplace(parts[2], 1)) ELSE <<>>]

\* pattern.wildcard.
wildcard(p) == Len(p.good) = 0 /\ Len(p.bad) = 0

RECURSIVE matchingFields(_, _)

\* A slice result: isNil tells the nil slice from an empty one.
Slice(v) == [isNil |-> FALSE, v |-> v]

NilSlice == [isNil |-> TRUE, v |-> <<>>]

RECURSIVE lastMatch(_, _, _)
\* firstMatch taking the last matching field instead of the first.
lastMatch(re, env, j) ==
    IF j > Len(env) THEN 0
    ELSE IF lastMatch(re, env, j + 1) # 0 THEN lastMatch(re, env, j + 1)
    ELSE IF MatchString(re, env[j]) THEN j
    ELSE 0

RECURSIVE firstMatch(_, _, _)
\* The first field of env from position j on that the compiled element matches, 0 when
\* none does.
firstMatch(re, env, j) ==
    IF j > Len(env) THEN 0
    ELSE IF MatchString(re, env[j]) THEN j
    ELSE firstMatch(re, env, j + 1)

RECURSIVE matchingFieldsInOrder(_, _)
\* matchingFields looking for each element only among the fields after the one the
\* element before it matched.
matchingFieldsInOrder(env, fields) ==
    IF fields = <<>> THEN Slice(<<>>)
    ELSE LET f    == Compile("^(?:" \o Head(fields) \o ")$")
             e    == firstMatch(f, env, 1)
             rest == matchingFieldsInOrder(SubSeq(env, e + 1, Len(env)), Tail(fields))
         IN  IF ~f.ok THEN NilSlice
             ELSE IF e = 0 THEN NilSlice
             ELSE IF rest.isNil THEN NilSlice
             ELSE Slice(<<env[e]>> \o rest.v)

\* Environment.matchingFields: for each element the first field it matches in full; nil
\* when an element does not compile or matches no field.
matchingFields(env, fields) ==
    IF fields = <<>> THEN Slice(<<>>)
    ELSE LET f    == Compile("^(?:" \o Head(fields) \o ")$")
             e    == firstMatch(f, env, 1)
             rest == matchingFields(env, Tail(fields))
         IN  IF ~f.ok THEN NilSlice
             ELSE IF e = 0 THEN NilSlice
             ELSE IF rest.isNil THEN NilSlice
             ELSE Slice(<<env[e]>> \o rest.v)

\* patternFields without the forbidden elements.
patternFieldsGood(env, p) == matchingFields(env, p.good)

\* patternFields voiding the match as soon as one forbidden element is matched.
patternFieldsAnyBad(env, p) ==
    IF \E i \in 1..Len(p.bad) : ~matchingFields(env, <<p.bad[i]>>).isNil THEN NilSlice
    ELSE matchingFields(env, p.good)

\* Environment.patternFields: the fields matching the good elements, nil when they do
\* not all match or when the bad elements all match and there is one at least.
patternFields(env, p) ==
    LET matches    == matchingFields(env, p.good)
        badMatches == matchingFields(env, p.bad)
    IN  IF matches.isNil THEN NilSlice
        ELSE IF ~badMatches.isNil /\ Len(badMatches.v) > 0 THEN NilSlice
        ELSE matches

RECURSIVE selectFromAny(_, _, _, _)
\* selectFrom returning a wildcard as soon as it meets one.
selectFromAny(env, keys, i, key) ==
    IF i > Len(keys) THEN [key |-> key, fields |-> NilSlice]
    ELSE IF wildcard(newPattern(keys[i])) THEN [key |-> keys[i], fields |-> NilSlice]
    ELSE IF ~patternFields(env, newPattern(keys[i])).isNil
    THEN [key |-> keys[i], fields |-> patternFields(env, newPattern(keys[i]))]
    ELSE selectFromAny(env, keys, i + 1, key)

RECURSIVE selectFrom(_, _, _, _)
\* The loop of Select from keys[i]: key is the last wildcard seen.
selectFrom(env, keys, i, key) ==
    IF i > Len(keys) THEN [key |-> key, fields |-> NilSlice]
    ELSE LET pattern == newPattern(keys[i])
             fields  == patternFields(env, pattern)
         IN  IF wildcard(pattern) THEN selectFrom(env, keys, i + 1, keys[i])
             ELSE IF ~fields.isNil THEN [key |-> keys[i], fields |-> fields]
             ELSE selectFrom(env, keys, i + 1, key)

\* Environment.Select.
Select(env, keys) == selectFrom(env, keys, 1, "")

\* NewMatch: the joined fields and the compiled join of the key's good elements;
\* regexp.ok is FALSE when MustCompile panics.
NewMatch(key, fields) ==
    [fields |-> JoinFields(fields.v),
     regexp |-> Compile("^(?:" \o JoinFields(newPattern(key).good) \o ")$")]

\* The value of a decimal digit.
DigitValue == [c \in {"0", "1", "2", "3", "4", "5", "6", "7", "8", "9"} |->
                 CASE c = "0" -> 0 [] c = "1" -> 1 [] c = "2" -> 2 [] c = "3" -> 3
                   [] c = "4" -> 4 [] c = "5" -> 5 [] c = "6" -> 6 [] c = "7" -> 7
                   [] c = "8" -> 8 [] OTHER -> 9]

RECURSIVE refNumber(_, _)
\* The number a reference name stands for, read from its digits with num read so far:
\* -1 for a name that is not a number.
refNumber(name, num) ==
    IF name = "" THEN num
    ELSE IF At(name, 1) \notin DOMAIN DigitValue THEN -1
    ELSE refNumber(Tail(name), num * 10 + DigitValue[At(name, 1)])

\* The reference read at the start of the template t, which begins with "$": its name
\* is the longest run of letters, digits and underscores, in braces or not; ok is FALSE
\* for an empty name or a missing closing brace; a name with a leading zero is no number.
extract(t) ==
    LET brace == At(t, 2) = "{"
        str   == SubSeq(t, IF brace THEN 3 ELSE 2, Len(t))
        i     == NameLen(str)
        name  == SubSeq(str, 1, i)
    IN  IF i = 0 \/ (brace /\ At(str, i + 1) # "}")
        THEN [ok |-> FALSE, num |-> -1, rest |-> t]
        ELSE [ok   |-> TRUE,
              num  |-> IF At(name, 1) = "0" /\ i > 1 THEN -1 ELSE refNumber(name, 0),
              rest |-> SubSeq(str, IF brace THEN i + 2 ELSE i + 1, Len(str))]

\* The text a parsed reference x stands for: group 0 is the whole match, a group the
\* expression does not have and a named group give nothing.
refValue(x, whole, caps) ==
    IF x.num = 0 THEN whole
    ELSE IF x.num \in 1..Len(caps) THEN caps[x.num]
    ELSE ""

RECURSIVE expandTemplate(_, _, _)
\* Regexp.expand: the template with "$$" as "$", each reference replaced, and a "$"
\* that starts no reference kept.
expandTemplate(t, whole, caps) ==
    IF t = "" THEN ""
    ELSE IF At(t, 1) # "$" THEN At(t, 1) \o expandTemplate(Tail(t), whole, caps)
    ELSE IF At(t, 2) = "$" THEN "$" \o expandTemplate(SubSeq(t, 3, Len(t)), whole, caps)
    ELSE LET x == extract(t)
         IN  IF ~x.ok THEN "$" \o expandTemplate(Tail(t), whole, caps)
             ELSE refValue(x, whole, caps) \o expandTemplate(x.rest, whole, caps)

RECURSIVE matchIndex(_, _, _)
\* The start of the leftmost match of re in src at or after position i, 0 when none.
matchIndex(re, src, i) ==
    IF i > Len(src) + 1 THEN 0
    ELSE IF matchesAt(re, src, i) # <<>> THEN i
    ELSE matchIndex(re, src, i + 1)

RECURSIVE replaceAll(_, _, _, _, _)
\* The loop of Regexp.ReplaceAllString: searchPos is where the next match is looked
\* for, lastMatchEnd the first position not yet copied. A match is replaced by the
\* expanded template, except an empty match right after another match; the search then
\* moves past the match, by one character at least.
replaceAll(re, src, repl, searchPos, lastMatchEnd) ==
    IF searchPos > Len(src) + 1 \/ matchIndex(re, src, searchPos) = 0
    THEN SubSeq(src, lastMatchEnd, Len(src))
    ELSE LET a0 == matchIndex(re, src, searchPos)
             a1 == Head(matchesAt(re, src, a0)).i
             caps == Head(matchesAt(re, src, a0)).caps
         IN  SubSeq(src, lastMatchEnd, a0 - 1)
                 \o (IF a1 > lastMatchEnd \/ a0 = 1
                     THEN expandTemplate(repl, SubSeq(src, a0, a1 - 1), caps)
                     ELSE "")
                 \o replaceAll(re, src, repl,
                               IF a1 > searchPos THEN a1 ELSE searchPos + 1, a1)

\* Match.Replace: "panic" stands for the panic of NewMatch on a join that does not
\* compile.
Replace(m, s) ==
    IF ~m.regexp.ok THEN "panic" ELSE replaceAll(m.regexp, m.fields, s, 1, 1)

(***************************************************************************)
(* Selecting a key for an environment and replacing with its captures      *)
(***************************************************************************)

\* The fields an environment string is made of.
EnvFields == {"a", "b", "c", "ab"}

\* The keys of a configuration map: wildcards, plain and regular-expression elements,
\* captures, alternation, forbidden elements after a lone "!".
EnvKeys ==
    {"", " ", "a", "b a", ".+ a", "(.+)b", "a|b c", "a ! b", "! b", "a.* c ! ab b"}

\* The strings Replace is given: no reference, a reference, references in braces and
\* to a group the key does not have.
Templates == {"t", "$1", "x${1}$2"}

\* The longest environment and the longest key list.
MaxEnvLen == 3

MaxKeys == 2

\* The sequences over S of length n at most.
SeqUpTo(S, n) == UNION {[1..m -> S] : m \in 0..n}

\* An environment and a list of keys, before Select is called.
EnvInit ==
    /\ fs = [p \in Paths |-> "absent"]
    /\ ledger = <<>>
    /\ last = NoCall
    /\ runs = 0
    /\ arg \in [env : SeqUpTo(EnvFields, MaxEnvLen), keys : SeqUpTo(EnvKeys, MaxKeys)]
    /\ res = [op |-> "none"]

\* key, fields := env.Select(keys)
SelectKeys ==
    /\ res.op = "none"
    /\ res' = [op |-> "Select"] @@ Select(arg.env, arg.keys)
    /\ UNCHANGED <<fs, ledger, last, runs, arg>>

\* NewMatch(key, fields).Replace(repl) for the key a map holds, as expandPackage and
\* DotConfig call it after Select.
ReplaceTemplate(repl) ==
    /\ res.op = "Select"
    /\ res.key \in Range(arg.keys)
    /\ res' = [op |-> "Replace", key |-> res.key, fields |-> res.fields, repl |-> repl,
               out |-> Replace(NewMatch(res.key, res.fields), repl)]
    /\ UNCHANGED <<fs, ledger, last, runs, arg>>

EnvNext ==
    \/ SelectKeys
    \/ \E repl \in Templates : ReplaceTemplate(repl)

SpecEnv == EnvInit /\ [][EnvNext]_vars

\* Element elem, anchored as matchingFields anchors it, matches the field in full.
FullMatch(elem, field) ==
    /\ Compile("^(?:" \o elem \o ")$").ok
    /\ MatchString(Compile("^(?:" \o elem \o ")$"), field)

\* Every element of the list is matched in full by some field of the environment.
AllMatched(env, elems) ==
    \A i \in 1..Len(elems) : \E j \in 1..Len(env) : FullMatch(elems[i], env[j])

\* Some element of the list is matched in full by some field of the environment.
SomeMatched(env, elems) ==
    \E i \in 1..Len(elems) : \E j \in 1..Len(env) : FullMatch(elems[i], env[j])

\* The key matches the environment: its required elements are all matched and its
\* forbidden elements, if it has any, are not all matched.
KeyMatches(env, k) ==
    /\ AllMatched(env, newPattern(k).good)
    /\ ~(newPattern(k).bad # <<>> /\ AllMatched(env, newPattern(k).bad))

Min(S) == CHOOSE x \in S : \A y \in S : x <= y

Max(S) == CHOOSE x \in S : \A y \in S : y <= x

\* The positions of the key list holding a matching non-wildcard key.
MatchingAt(env, keys) ==
    {i \in 1..Len(keys) : ~wildcard(newPattern(keys[i])) /\ KeyMatches(env, keys[i])}

\* The positions of the key list holding a wildcard.
WildcardAt(keys) == {i \in 1..Len(keys) : wildcard(newPattern(keys[i]))}

\* C4: Select returns the first non-wildcard key of the list that matches the
\* environment, with non-nil fields; without one, the last wildcard of the list with
\* nil fields; without a wildcard either, the empty key with nil fields.
C4_SelectPrefersMatch ==
    res.op = "Select" =>
        IF MatchingAt(arg.env, arg.keys) # {}
        THEN /\ res.key = arg.keys[Min(MatchingAt(arg.env, arg.keys))]
             /\ ~res.fields.isNil
        ELSE IF WildcardAt(arg.keys) # {}
        THEN /\ res.key = arg.keys[Max(WildcardAt(arg.keys))]
             /\ res.fields.isNil
        ELSE res.key = "" /\ res.fields.isNil

\* C4 happens: a matching key was chosen although a wildcard stands before it.
C4_Witness ==
    /\ res.op = "Select"
    /\ Len(arg.keys) = 2
    /\ wildcard(newPattern(arg.keys[1]))
    /\ res.key = arg.keys[2]
    /\ ~res.fields.isNil

\* C5 as stated: a key whose required elements are matched is not selected whenever
\* some field matches some forbidden element of it.
C5_AnyForbiddenVoids ==
    res.op = "Select" =>
        \A i \in 1..Len(arg.keys) :
            ( /\ AllMatched(arg.env, newPattern(arg.keys[i]).good)
              /\ SomeMatched(arg.env, newPattern(arg.keys[i]).bad) )
            => res.key # arg.keys[i]

\* C5, amended: a key whose required elements are matched is not selected whenever it
\* has forbidden elements and every one of them is matched by some field.
C5_AllForbiddenVoid ==
    res.op = "Select" =>
        \A i \in 1..Len(arg.keys) :
            ( /\ AllMatched(arg.env, newPattern(arg.keys[i]).good)
              /\ newPattern(arg.keys[i]).bad # <<>>
              /\ AllMatched(arg.env, newPattern(arg.keys[i]).bad) )
            => res.key # arg.keys[i]

\* C5 happens: the only key has its required and its forbidden elements matched, and
\* Select returned no key.
C5_Witness ==
    /\ res.op = "Select"
    /\ Len(arg.keys) = 1
    /\ newPattern(arg.keys[1]).good # <<>>
    /\ newPattern(arg.keys[1]).bad # <<>>
    /\ AllMatched(arg.env, newPattern(arg.keys[1]).good)
    /\ AllMatched(arg.env, newPattern(arg.keys[1]).bad)
    /\ res.key = "" /\ res.fields.isNil

\* C6: a key with several forbidden elements whose required elements are matched
\* still matches when only some of its forbidden elements are matched: Select returns
\* it or a key before it.
C6_SomeForbiddenStillMatches ==
    res.op = "Select" =>
        \A i \in 1..Len(arg.keys) :
            ( /\ Len(newPattern(arg.keys[i]).bad) >= 2
              /\ AllMatched(arg.env, newPattern(arg.keys[i]).good)
              /\ ~AllMatched(arg.env, newPattern(arg.keys[i]).bad) )
            => /\ ~res.fields.isNil
               /\ \E j \in 1..i : res.key = arg.keys[j]

\* C6 happens: a key with two forbidden elements, one of them matched, was selected.
C6_Witness ==
    /\ res.op = "Select"
    /\ ~res.fields.isNil
    /\ Len(newPattern(res.key).bad) >= 2
    /\ SomeMatched(arg.env, newPattern(res.key).bad)
    /\ ~AllMatched(arg.env, newPattern(res.key).bad)

\* The positions of the fields of the environment that element elem matches in full.
MatchedAt(env, elem) == {j \in 1..Len(env) : FullMatch(elem, env[j])}

\* C7: the fields Select returns for a matching key are one per required element, in
\* the order of the elements in the key, each the first field of the environment that
\* matches its element in full.
C7_FieldsInKeyOrder ==
    (res.op = "Select" /\ ~res.fields.isNil) =>
        /\ Len(res.fields.v) = Len(newPattern(res.key).good)
        /\ \A i \in 1..Len(res.fields.v) :
               /\ MatchedAt(arg.env, newPattern(res.key).good[i]) # {}
               /\ res.fields.v[i]
                    = arg.env[Min(MatchedAt(arg.env, newPattern(res.key).good[i]))]

\* C7 happens: an element that two fields match got the first of them, and that field
\* was returned again for the next element.
C7_Witness ==
    /\ res.op = "Select"
    /\ res.key = ".+ a"
    /\ arg.env = <<"a", "b">>
    /\ res.fields.v = <<"a", "a">>

\* The matches of the whole of s by re, the preferred one first.
WholeMatches(re, s) == SelectSeq(matchesAt(re, s, 1), LAMBDA r : r.i = Len(s) + 1)

\* The expression NewMatch compiles for a key: its required elements joined by spaces.
JoinedGood(key) == Compile("^(?:" \o JoinFields(newPattern(key).good) \o ")$")

\* The template holds no "$".
NoReference(t) == \A i \in 1..Len(t) : At(t, i) # "$"

\* C8: for a key and fields that Select returned, Replace gives the template with its
\* references replaced by the capture groups of the key's required part matched
\* against the joined fields; a template without references is returned as it is.
C8_ReplaceFillsTemplate ==
    res.op = "Replace" =>
        /\ JoinedGood(res.key).ok
        /\ WholeMatches(JoinedGood(res.key), JoinFields(res.fields.v)) # <<>>
        /\ res.out = expandTemplate(
               res.repl, JoinFields(res.fields.v),
               Head(WholeMatches(JoinedGood(res.key), JoinFields(res.fields.v))).caps)
        /\ NoReference(res.repl) => res.out = res.repl

(***************************************************************************)
(* The settings of a bundle (config.Config.DotConfig)                      *)
(* A common is [Method, Root, DotPrefix]; DotPrefix is "nil" (the nil      *)
(* pointer), "true" or "false". A map is a function on its keys.           *)
(***************************************************************************)

\* The zero value of common, and of dot.
ZeroCommon == [Method |-> "", Root |-> "", DotPrefix |-> "nil"]

ZeroDot == [Common |-> ZeroCommon, Environments |-> <<>>, Rules |-> <<>>, Deploy |-> <<>>]

\* applyCommonDotConfig with every setting of c overriding what d holds.
applyCommonOverride(c, d) ==
    [d EXCEPT !.Method = IF c.Method # "" THEN c.Method ELSE @,
              !.Root = IF c.Root # "" THEN c.Root ELSE @,
              !.DotPrefix = IF c.DotPrefix # "nil" THEN c.DotPrefix = "true" ELSE @,
              !.dotPrefixSet = @ \/ c.DotPrefix # "nil"]

\* applyCommonDotConfig: c fills the fields d has not set yet.
applyCommonDotConfig(c, d) ==
    [d EXCEPT !.Method = IF @ = "" THEN c.Method ELSE @,
              !.Root = IF @ = "" THEN c.Root ELSE @,
              !.DotPrefix = IF ~d.dotPrefixSet /\ c.DotPrefix # "nil"
                            THEN c.DotPrefix = "true" ELSE @,
              !.dotPrefixSet = @ \/ c.DotPrefix # "nil"]

\* commonConf, ok := m[key]; if ok, it is applied.
applySelected(m, key, d) ==
    IF key \in DOMAIN m THEN applyCommonDotConfig(m[key], d) ELSE d

RECURSIVE templatedRules(_, _, _, _)
\* The loop over the selected rule map, walked in the order ks of its keys: each key
\* is rewritten by Replace; of two keys rewritten alike the later one stays.
templatedRules(match, envRules, ks, acc) ==
    IF ks = <<>> THEN acc
    ELSE templatedRules(
             match, envRules, Tail(ks),
             [k \in DOMAIN acc \cup {Replace(match, Head(ks))} |->
                 IF k = Replace(match, Head(ks)) THEN envRules[Head(ks)] ELSE acc[k]])

\* rulesOf with the rule maps of the keys that are not selected merged in after the
\* selected one.
rulesOfMerged(dot, sel, ruleOrder) ==
    IF sel.key \notin DOMAIN dot.Rules THEN [isNil |-> TRUE, map |-> <<>>]
    ELSE [isNil |-> FALSE,
          map   |-> templatedRules(
                        NewMatch(sel.key, sel.fields), dot.Rules[sel.key],
                        SelectSeq(ruleOrder, LAMBDA k : k \in DOMAIN dot.Rules[sel.key]),
                        <<>>)
                    @@ [k \in UNION {DOMAIN dot.Rules[e] : e \in DOMAIN dot.Rules} |->
                          dot.Rules[CHOOSE e \in DOMAIN dot.Rules :
                                        k \in DOMAIN dot.Rules[e]][k]]]

\* d.Rules: the rule map under the key sel that Select chose, nil without one.
rulesOf(dot, sel, ruleOrder) ==
    IF sel.key \notin DOMAIN dot.Rules THEN [isNil |-> TRUE, map |-> <<>>]
    ELSE [isNil |-> FALSE,
          map   |-> templatedRules(
                        NewMatch(sel.key, sel.fields), dot.Rules[sel.key],
                        SelectSeq(ruleOrder, LAMBDA k : k \in DOMAIN dot.Rules[sel.key]),
                        <<>>)]

\* d.Deploy: the commands under the selected key, nil without one.
deployOf(dot, key) ==
    IF key \in DOMAIN dot.Deploy THEN [isNil |-> FALSE, v |-> dot.Deploy[key]]
    ELSE [isNil |-> TRUE, v |-> <<>>]

\* The end of DotConfig: the dot prefix is on when nothing set it.
defaultDotPrefix(d) == IF d.dotPrefixSet THEN d ELSE [d EXCEPT !.DotPrefix = TRUE]

\* DotConfig returning the zero configuration for a bundle the schema does not declare.
DotConfigDeclaredOnly(cfg, dotName, env, ord) ==
    LET dot == IF dotName \in DOMAIN cfg.Dots THEN cfg.Dots[dotName] ELSE ZeroDot
        d0  == [Method |-> "", Root |-> "", DotPrefix |-> FALSE, dotPrefixSet |-> FALSE,
                Rules  |-> rulesOf(dot, Select(env, ord.rules), ord.ruleKeys),
                Deploy |-> deployOf(dot, Select(env, ord.deploy).key)]
    IN  IF dotName \notin DOMAIN cfg.Dots THEN defaultDotPrefix(d0)
        ELSE defaultDotPrefix(
               applyCommonDotConfig(cfg.Common,
                 applySelected(cfg.Environments, Select(env, ord.globalEnvs).key,
                   applyCommonDotConfig(dot.Common,
                     applySelected(dot.Environments, Select(env, ord.envs).key, d0)))))

\* Config.DotConfig for the schema cfg and the environment env. ord gives the order in
\* which each map is walked: rules, deploy, envs and globalEnvs for the keys handed to
\* Select, ruleKeys for the loop over the selected rule map.
DotConfig(cfg, dotName, env, ord) ==
    LET dot == IF dotName \in DOMAIN cfg.Dots THEN cfg.Dots[dotName] ELSE ZeroDot
    IN  defaultDotPrefix(
          applyCommonDotConfig(cfg.Common,
            applySelected(cfg.Environments, Select(env, ord.globalEnvs).key,
              applyCommonDotConfig(dot.Common,
                applySelected(dot.Environments, Select(env, ord.envs).key,
                  [Method |-> "", Root |-> "", DotPrefix |-> FALSE,
                   dotPrefixSet |-> FALSE,
                   Rules  |-> rulesOf(dot, Select(env, ord.rules), ord.ruleKeys),
                   Deploy |-> deployOf(dot, Select(env, ord.deploy).key)])))))

\* The environment the configuration is read in.
ConfEnv == <<"a", "ab">>

\* The settings a layer may hold, and those an environment-keyed layer may hold.
Commons ==
    {ZeroCommon,
     [Method |-> "deep", Root |-> "", DotPrefix |-> "false"],
     [Method |-> "", Root |-> "/q", DotPrefix |-> "true"],
     [Method |-> "copy", Root |-> "/p", DotPrefix |-> "nil"]}

EnvCommons ==
    {[Method |-> "deep", Root |-> "", DotPrefix |-> "false"],
     [Method |-> "", Root |-> "/q", DotPrefix |-> "true"]}

\* The keys of an environment-keyed layer: matching, not matching, wildcard.
ConfKeys == {"a", "b", ""}

\* The number of keys an environment-keyed layer holds at most.
MaxConfKeys == 2

\* The environment-keyed layers.
CommonMaps ==
    UNION {[K -> EnvCommons] : K \in {S \in SUBSET ConfKeys : Cardinality(S) <= MaxConfKeys}}

\* The rules and deploy commands a bundle may declare.
DotExtras ==
    {[Rules |-> <<>>, Deploy |-> <<>>],
     [Rules |-> [k \in {"(.+)b"} |-> [r \in {"$1", "a"} |-> IF r = "a" THEN "/q" ELSE "/p"]],
      Deploy |-> [k \in {"b"} |-> <<<<"cmd">>>>]],
     [Rules |-> [k \in {"b", ""} |-> [r \in {"a"} |-> IF k = "" THEN "" ELSE "/p"]],
      Deploy |-> [k \in {"a", ""} |-> IF k = "a" THEN <<<<"cmd", "$1">>>> ELSE <<>>]],
     [Rules |-> [k \in {"(.+)b", "a"} |->
                    IF k = "a" THEN [r \in {"h"} |-> "/q"]
                    ELSE [r \in {"$1/f", "g"} |-> IF r = "g" THEN "" ELSE "/p"]],
      Deploy |-> [k \in {"(.+)b", "a"} |->
                    IF k = "a" THEN <<<<"cmd", "$1">>>> ELSE <<<<"c">>, <<"d">>>>]]}

\* The configurations: global settings and the bundle X, which is undeclared, declares
\* settings in every layer, or declares rules and deploy commands.
Configs ==
    {[Common |-> g, Environments |-> ge,
      Dots |-> [n \in {"X"} |-> [Common |-> c, Environments |-> e,
                                  Rules |-> <<>>, Deploy |-> <<>>]]] :
        g \in Commons, ge \in CommonMaps, c \in Commons, e \in CommonMaps}
    \cup {[Common |-> g, Environments |-> ge,
           Dots |-> [n \in {"X"} |-> [Common |-> ZeroCommon, Environments |-> <<>>,
                                       Rules |-> x.Rules, Deploy |-> x.Deploy]]] :
              g \in Commons, ge \in CommonMaps, x \in DotExtras}
    \cup {[Common |-> g, Environments |-> ge, Dots |-> <<>>] :
              g \in Commons, ge \in CommonMaps}

\* The bundle of a configuration that DotConfig reads: the zero value when undeclared.
DotOf(cfg, dotName) == IF dotName \in DOMAIN cfg.Dots THEN cfg.Dots[dotName] ELSE ZeroDot

\* A configuration, before DotConfig is called.
ConfInit ==
    /\ fs = [p \in Paths |-> "absent"]
    /\ ledger = <<>>
    /\ last = NoCall
    /\ runs = 0
    /\ arg \in [cfg : Configs]
    /\ res = [op |-> "none"]

\* conf.DotConfig("X"), with the keys Select chose among the environment-keyed layers.
DotConfigCall ==
    /\ res.op = "none"
    /\ \E ord \in [rules      : Orders(DOMAIN DotOf(arg.cfg, "X").Rules),
                   deploy     : Orders(DOMAIN DotOf(arg.cfg, "X").Deploy),
                   envs       : Orders(DOMAIN DotOf(arg.cfg, "X").Environments),
                   globalEnvs : Orders(DOMAIN arg.cfg.Environments),
                   ruleKeys   : Orders(UNION {DOMAIN DotOf(arg.cfg, "X").Rules[k] :
                                                  k \in DOMAIN DotOf(arg.cfg, "X").Rules})] :
           res' = [op        |-> "DotConfig",
                   key       |-> Select(ConfEnv, ord.envs).key,
                   globalKey |-> Select(ConfEnv, ord.globalEnvs).key,
                   d         |-> DotConfig(arg.cfg, "X", ConfEnv, ord)]
    /\ UNCHANGED <<fs, ledger, last, runs, arg>>

\* conf.DotConfig("Y"): Y is a bundle no configuration declares.
DotConfigUndeclared ==
    /\ res.op = "none"
    /\ \E globalEnvs \in Orders(DOMAIN arg.cfg.Environments) :
           res' = [op |-> "DotConfigUndeclared",
                   d  |-> DotConfig(arg.cfg, "Y", ConfEnv,
                                    [rules |-> <<>>, deploy |-> <<>>, envs |-> <<>>,
                                     globalEnvs |-> globalEnvs, ruleKeys |-> <<>>])]
    /\ UNCHANGED <<fs, ledger, last, runs, arg>>

ConfNext == DotConfigCall \/ DotConfigUndeclared

SpecConf == ConfInit /\ [][ConfNext]_vars

\* The layers DotConfig reads for a bundle, the most specific first: a layer keyed by
\* the environment counts only when its selected key is one of its keys.
Layers(cfg, dotName, key, globalKey) ==
    << IF key \in DOMAIN DotOf(cfg, dotName).Environments
       THEN DotOf(cfg, dotName).Environments[key] ELSE ZeroCommon,
       DotOf(cfg, dotName).Common,
       IF globalKey \in DOMAIN cfg.Environments
       THEN cfg.Environments[globalKey] ELSE ZeroCommon,
       cfg.Common >>

\* The value of a field in the first layer that sets it, unset when none does.
FirstSet(layers, field, unset) ==
    IF \E i \in 1..Len(layers) : layers[i][field] # unset
    THEN layers[Min({i \in 1..Len(layers) : layers[i][field] # unset})][field]
    ELSE unset

\* C9: method, root and dot prefix are each the value of the first layer that sets
\* them, in the order bundle environment layer (when selected), bundle, global
\* environment layer (when selected), global; a dot prefix set to false stays, and the
\* dot prefix is true when no layer sets it.
C9_FirstLayerWins ==
    res.op = "DotConfig" =>
        LET layers == Layers(arg.cfg, "X", res.key, res.globalKey)
        IN  /\ res.d.Method = FirstSet(layers, "Method", "")
            /\ res.d.Root = FirstSet(layers, "Root", "")
            /\ res.d.DotPrefix = (FirstSet(layers, "DotPrefix", "nil") # "false")

\* C9 happens: the bundle's environment layer is selected and sets the dot prefix to
\* false and the method, the bundle sets the root and the dot prefix to true, and the
\* global settings set another method and root.
C9_Witness ==
    /\ res.op = "DotConfig"
    /\ res.key \in DOMAIN DotOf(arg.cfg, "X").Environments
    /\ DotOf(arg.cfg, "X").Environments[res.key].DotPrefix = "false"
    /\ DotOf(arg.cfg, "X").Common.DotPrefix = "true"
    /\ arg.cfg.Common.Method = "copy"
    /\ res.d.Method = "deep" /\ res.d.Root = "/q" /\ res.d.DotPrefix = FALSE

(***************************************************************************)
(* Resolving the files of a bundle (dotfile.Resolver)                      *)
(***************************************************************************)

\* The files of a bundle directory, relative to it, as dirFiles lists them.
BundleFiles == {"f", "a/f", "a/b/f", "a/dot-g", "dot-h", "$U"}

\* The keys and the values of a rule map. The variable U is not set.
RuleKeys == {"", ".", "a", "a/b", "a/f", "f", "dot-h"}

RuleValues == {"", "/o", "/dot-u", "$U"}

\* The number of files listed and the number of rules at most.
MaxFiles == 2

MaxRules == 2

RuleMaps ==
    UNION {[K -> RuleValues] : K \in {S \in SUBSET RuleKeys : Cardinality(S) <= MaxRules}}

\* The files and rules of bundle X and its dot prefix setting, before the resolver is
\* called; the output root is /r.
ResolveInit ==
    /\ fs = [p \in Paths |-> "absent"]
    /\ ledger = <<>>
    /\ last = NoCall
    /\ runs = 0
    /\ arg \in [files : SeqUpTo(BundleFiles, MaxFiles), rules : RuleMaps,
                r : {ResolverOf("X", [Root |-> "/r", DotPrefix |-> b]) : b \in BOOLEAN}]
    /\ res = [op |-> "none"]

\* fileMap, err := resolver.DeepResolve(files, rules)
DeepResolveCall ==
    /\ res.op = "none"
    /\ res' = [op |-> "DeepResolve"] @@ DeepResolve(arg.files, arg.rules, arg.r)
    /\ UNCHANGED <<fs, ledger, last, runs, arg>>

\* fileMap, err := resolver.ShallowResolve(files, rules)
ShallowResolveCall ==
    /\ res.op = "none"
    /\ res' = [op |-> "ShallowResolve"] @@ ShallowResolve(arg.files, arg.rules, arg.r)
    /\ UNCHANGED <<fs, ledger, last, runs, arg>>

ResolveNext == DeepResolveCall \/ ShallowResolveCall

SpecResolve == ResolveInit /\ [][ResolveNext]_vars

RECURSIVE AncestorDirs(_, _)
\* The directories above a relative path, the directory "." of the bundle itself
\* among them when withRoot.
AncestorDirs(path, withRoot) ==
    IF Dir(path) = "." THEN (IF withRoot THEN {"."} ELSE {})
    ELSE {Dir(path)} \cup AncestorDirs(Dir(path), withRoot)

\* The deepest of a set of directories above one path: the longest, the directory
\* "." of the bundle being the shallowest.
Deepest(dirs) ==
    IF dirs = {"."} THEN "."
    ELSE CHOOSE d \in dirs \ {"."} : \A e \in dirs \ {"."} : Len(e) <= Len(d)

\* The part of the path below the directory dir above it.
PathBelow(path, dir) ==
    IF dir = "." THEN path ELSE SubSeq(path, Len(dir) + 2, Len(path))

\* The path with its "dot-" segments expanded when the resolver's dot prefix is on.
Prefixed(path, r) == IF r.dotPrefix THEN expandDotPrefixes(path) ELSE path

\* The destination the first applicable case gives a file, "" for no destination.
FirstCase(file, rules, r, withRoot) ==
    IF file \in DOMAIN rules THEN rules[file]
    ELSE IF AncestorDirs(file, withRoot) \cap DOMAIN rules # {}
    THEN LET d == Deepest(AncestorDirs(file, withRoot) \cap DOMAIN rules)
         IN  IF rules[d] = "" THEN ""
             ELSE Join(rules[d], Prefixed(PathBelow(file, d), r))
    ELSE IF "" \in DOMAIN rules THEN ""
    ELSE Join(r.outRoot, Prefixed(file, r))

\* The result of DeepResolve holds, for each file, the destination of the first
\* applicable case, and nothing for a file without destination.
FirstCaseResult(withRoot) ==
    /\ DOMAIN res.map \subseteq {Join(arg.r.dotRoot, f) : f \in Range(arg.files)}
    /\ \A f \in Range(arg.files) :
           IF FirstCase(f, arg.rules, arg.r, withRoot) = ""
           THEN Join(arg.r.dotRoot, f) \notin DOMAIN res.map
           ELSE /\ Join(arg.r.dotRoot, f) \in DOMAIN res.map
                /\ res.map[Join(arg.r.dotRoot, f)]
                     = FirstCase(f, arg.rules, arg.r, withRoot)

\* C10: DeepResolve gives each file the destination of the first applicable case: the
\* value of the rule keyed by its path; else the value of its deepest ancestor
\* directory that is a rule key, joined with the path below it; else nothing when the
\* rules hold the empty key; else the output root joined with its path ("dot-"
\* segments of the joined path expanded when the dot prefix is on). The directory "."
\* counts as an ancestor of every file, or of none. Calls the path expander fails in
\* are left aside.
C10_FirstApplicableCase ==
    res.op = "DeepResolve" /\ res.err = "nil"
        => \E withRoot \in BOOLEAN : FirstCaseResult(withRoot)

(***************************************************************************)
(* "dot-" segments, ignored directories and shallow resolution             *)
(***************************************************************************)

\* The source path of a file of the bundle being resolved.
SourceOf(file) == Join(arg.r.dotRoot, file)

\* The destinations the directory rules with a value give a file: the value as it is,
\* joined with the path below the directory, "dot-" segments expanded below only.
DirRuleTargets(file, rules, r) ==
    {Join(rules[d], Prefixed(PathBelow(file, d), r)) :
        d \in {e \in AncestorDirs(file, TRUE) \cap DOMAIN rules : rules[e] # ""}}

\* C11: in the result of DeepResolve the destination of a file whose path is a rule key
\* is the rule's value with no segment changed; the destination of a file resolved by
\* a directory rule is the rule's value, unchanged, joined with the path below the
\* directory; the destination of a file no rule applies to is the output root joined
\* with its whole relative path; "dot-" segments of the joined part are expanded when
\* dotPrefix is on, and no segment is changed when it is off.
C11_DotPrefixBelowRule ==
    res.op = "DeepResolve" /\ res.err = "nil"
        => \A f \in Range(arg.files) :
               SourceOf(f) \in DOMAIN res.map
                   => IF f \in DOMAIN arg.rules
                      THEN res.map[SourceOf(f)] = arg.rules[f]
                      ELSE IF AncestorDirs(f, TRUE) \cap DOMAIN arg.rules = {}
                      THEN res.map[SourceOf(f)] = Join(arg.r.outRoot, Prefixed(f, arg.r))
                      ELSE res.map[SourceOf(f)]
                               \in DirRuleTargets(f, arg.rules, arg.r)
                                   \cup {Join(arg.r.outRoot, Prefixed(f, arg.r))}

\* A directory rule whose value holds "dot-" resolves a/dot-g, dot-h falls back to the
\* root, dotPrefix on.
C11_Witness ==
    /\ res.op = "DeepResolve"
    /\ arg.r.dotPrefix
    /\ arg.files = <<"a/dot-g", "dot-h">>
    /\ arg.rules = [a |-> "/dot-u"]
    /\ res.map = (SourceOf("a/dot-g") :> "/dot-u/.g" @@ SourceOf("dot-h") :> "/r/.h")

\* The file has a rule of its own with the empty value, or has none and the rule of
\* the deepest directory above it that is a rule key has the empty value.
Ignored(file, rules) ==
    IF file \in DOMAIN rules THEN rules[file] = ""
    ELSE /\ AncestorDirs(file, FALSE) \cap DOMAIN rules # {}
         /\ rules[Deepest(AncestorDirs(file, FALSE) \cap DOMAIN rules)] = ""

\* The file has a rule with a value, its own or that of the deepest directory above
\* it that is a rule key, and a directory above it has a rule with the empty value.
BelowIgnored(file, rules) ==
    /\ \E d \in AncestorDirs(file, FALSE) \cap DOMAIN rules : rules[d] = ""
    /\ ~Ignored(file, rules)

ShallowKeys(files, rules, withRoot) ==
    {k \in DOMAIN rules :
        /\ rules[k] # ""
        /\ \E f \in Range(files) :
               \/ k = f
               \/ /\ f \notin DOMAIN rules
                  /\ AncestorDirs(f, withRoot) \cap DOMAIN rules # {}
                  /\ k = Deepest(AncestorDirs(f, withRoot) \cap DOMAIN rules)}

\* The result of ShallowResolve has one entry per such key, from the source root
\* joined with the key to the rule's value, or the entry from the source root to the
\* output root when there is no such key.
ShallowResult(withRoot) ==
    LET K == ShallowKeys(arg.files, arg.rules, withRoot)
    IN  IF K = {}
        THEN res.map = (arg.r.dotRoot :> arg.r.outRoot)
        ELSE /\ DOMAIN res.map = {SourceOf(k) : k \in K}
             /\ \A k \in K : res.map[SourceOf(k)] = arg.rules[k]

\* C13: ShallowResolve returns one entry per rule key with a value that is the path
\* of a listed file or the deepest directory rule key above a listed file, from the
\* source root joined with the key to the rule's value as it is, for either setting
\* of dotPrefix, and the single entry source root -> output root when there is no such
\* key. The directory "." of the bundle is above every file of the bundle.
C13_ShallowEntries ==
    res.op = "ShallowResolve" /\ res.err = "nil" => ShallowResult(TRUE)

(***************************************************************************)
(* The rules and deploy commands of a bundle                               *)
(***************************************************************************)

\* What Select may return for the keys of the environment-keyed map m, in any of the
\* orders Go walks the map in.
Selectable(m) == {Select(ConfEnv, o) : o \in Orders(DOMAIN m)}

\* rules holds the rule map envRules with every key rewritten by Replace for the
\* selection sel and nothing else, each value being the value of a key rewritten so.
Rewritten(sel, envRules, rules) ==
    /\ ~rules.isNil
    /\ DOMAIN rules.map =
           {Replace(NewMatch(sel.key, sel.fields), k) : k \in DOMAIN envRules}
    /\ \A r \in DOMAIN rules.map :
           \E k \in DOMAIN envRules :
               /\ Replace(NewMatch(sel.key, sel.fields), k) = r
               /\ rules.map[r] = envRules[k]

\* C14: the Rules of DotConfig are the rule map under one key that Select chooses
\* among the keys of the bundle's rule maps, with every key rewritten by Replace
\* with the captures of that selection and the values as they are, and nothing from
\* another key; Rules is nil when Select chooses no key. Deploy is the command list
\* under one key that Select chooses among the keys of the bundle's deploy maps, nil
\* when it chooses none.
C14_RulesAndDeploySelectedOnce ==
    res.op = "DotConfig" =>
        /\ \E sel \in Selectable(DotOf(arg.cfg, "X").Rules) :
               IF sel.key \in DOMAIN DotOf(arg.cfg, "X").Rules
               THEN Rewritten(sel, DotOf(arg.cfg, "X").Rules[sel.key], res.d.Rules)
               ELSE res.d.Rules.isNil
        /\ \E sel \in Selectable(DotOf(arg.cfg, "X").Deploy) :
               IF sel.key \in DOMAIN DotOf(arg.cfg, "X").Deploy
               THEN res.d.Deploy = [isNil |-> FALSE,
                                    v |-> DotOf(arg.cfg, "X").Deploy[sel.key]]
               ELSE res.d.Deploy.isNil

\* The rules under the key (.+)b are selected, with a for $1, and the deploy commands
\* under the key a, while both keys match the environment.
C14_Witness ==
    /\ res.op = "DotConfig"
    /\ DOMAIN DotOf(arg.cfg, "X").Rules = {"(.+)b", "a"}
    /\ res.d.Rules = [isNil |-> FALSE, map |-> ("a/f" :> "/p" @@ "g" :> "")]
    /\ res.d.Deploy = [isNil |-> FALSE, v |-> <<<<"cmd", "$1">>>>]

(***************************************************************************)
(* Packages and the install subcommand (config.Config, PackageInstaller)   *)
(* A schema for packages is [CheckCmd, InstallCmd, Packages, Dots]: the    *)
(* environment-keyed check and install commands, the global package table  *)
(* and, for each declared bundle, the map from its package names to their  *)
(* descriptions. The environment is ConfEnv.                               *)
(***************************************************************************)

\* Config.CheckCmd: the command under the key Select chooses among the keys walked in
\* the order ks, the nil slice without one.
CheckCmd(cfg, ks) ==
    IF Select(ConfEnv, ks).key \in DOMAIN cfg.CheckCmd
    THEN cfg.CheckCmd[Select(ConfEnv, ks).key] ELSE <<>>

\* Config.InstallCmd.
InstallCmd(cfg, ks) ==
    IF Select(ConfEnv, ks).key \in DOMAIN cfg.InstallCmd
    THEN cfg.InstallCmd[Select(ConfEnv, ks).key] ELSE <<>>

\* expandPackage giving the strings of the selected list as they are written.
expandPackageRaw(cfg, pkgName, ks) ==
    IF pkgName \notin DOMAIN cfg.Packages THEN <<pkgName>>
    ELSE IF Select(ConfEnv, ks).key \notin DOMAIN cfg.Packages[pkgName] THEN <<pkgName>>
    ELSE cfg.Packages[pkgName][Select(ConfEnv, ks).key]

\* Config.expandPackage: the name itself when the table has no entry for it or no key
\* of its entry is selected, else the selected list with Replace applied to each string.
expandPackage(cfg, pkgName, ks) ==
    IF pkgName \notin DOMAIN cfg.Packages THEN <<pkgName>>
    ELSE LET sel == Select(ConfEnv, ks)
         IN  IF sel.key \notin DOMAIN cfg.Packages[pkgName] THEN <<pkgName>>
             ELSE [i \in 1..Len(cfg.Packages[pkgName][sel.key]) |->
                     Replace(NewMatch(sel.key, sel.fields),
                             cfg.Packages[pkgName][sel.key][i])]

\* Config.Packages: names is the order the bundle's package map is walked in, keys
\* gives for each name the order the keys of its table entry are handed to Select in.
Packages(cfg, dotName, names, keys) ==
    IF dotName \notin DOMAIN cfg.Dots
    THEN [err |-> "Dot " \o dotName \o " not in config", pkgs |-> <<>>]
    ELSE [err  |-> "nil",
          pkgs |-> [i \in 1..Len(names) |->
                      [Name |-> names[i],
                       Desc |-> cfg.Dots[dotName][names[i]],
                       List |-> expandPackage(cfg, names[i], keys[names[i]])]]]

\* The orders Go may walk the maps in that Packages reads for a bundle.
PackageOrders(cfg, dotName) ==
    LET declared == IF dotName \in DOMAIN cfg.Dots THEN DOMAIN cfg.Dots[dotName] ELSE {}
        keysOf(n) == IF n \in DOMAIN cfg.Packages
                     THEN Orders(DOMAIN cfg.Packages[n]) ELSE {<<>>}
    IN  {o \in [names : Orders(declared),
                keys  : [declared -> UNION {keysOf(n) : n \in declared}]] :
             \A n \in declared : o.keys[n] \in keysOf(n)}

\* NewPackageInstaller: the error it returns, "nil" for none.
NewPackageInstallerUnchecked(cfg, checkKeys, installKeys) == "nil"

NewPackageInstaller(cfg, checkKeys, installKeys) ==
    IF Len(CheckCmd(cfg, checkKeys)) = 0 THEN "Empty check command"
    ELSE IF Len(InstallCmd(cfg, installKeys)) = 0 THEN "Empty install command"
    ELSE "nil"

RECURSIVE Flatten(_)
\* The expanded names of a list of packages, in the order installDotPackages walks them.
Flatten(pkgs) == IF pkgs = <<>> THEN <<>> ELSE Head(pkgs).List \o Flatten(Tail(pkgs))

\* What runCmd may return: exit code 0, a non-zero exit code, or the error of a
\* command that could not be started (code -1).
Outcomes == {"0", "1", "spawn"}

\* The loop of installDotPackages moves to the next expanded name, or the loop of
\* Install to the next bundle.
nextPkg(r) == [r EXCEPT !.pc = IF r.queue = <<>> THEN "dots" ELSE "check"]

\* installDotPackages once Packages has answered pk: its error ends the run; when dry
\* the names are printed only.
listed(r, pk, dry) ==
    IF pk.err # "nil" THEN [r EXCEPT !.pc = "done", !.err = pk.err]
    ELSE IF dry THEN [r EXCEPT !.dots = Tail(@)]
    ELSE nextPkg([r EXCEPT !.dots = Tail(@), !.queue = Flatten(pk.pkgs),
                           !.names = @ \o Flatten(pk.pkgs)])

\* installPkg after the check command with a start failure taken for a failed check.
checkedAnyway(r, cmd, out) ==
    IF out = "0"
    THEN nextPkg([r EXCEPT !.log = Append(@, [cmd |-> cmd, out |-> out]),
                           !.queue = Tail(@)])
    ELSE [r EXCEPT !.log = Append(@, [cmd |-> cmd, out |-> out]), !.pc = "install"]

\* installPkg after the check command cmd returned out: the package is installed
\* already (0), the run ends (not started), or the install command is next.
checked(r, cmd, out) ==
    IF out = "0"
    THEN nextPkg([r EXCEPT !.log = Append(@, [cmd |-> cmd, out |-> out]),
                           !.queue = Tail(@)])
    ELSE IF out = "spawn"
    THEN [r EXCEPT !.log = Append(@, [cmd |-> cmd, out |-> out]), !.pc = "done",
                   !.err = "exec: " \o Head(cmd) \o ": not found"]
    ELSE [r EXCEPT !.log = Append(@, [cmd |-> cmd, out |-> out]), !.pc = "install"]

\* installPkg after the install command cmd returned out.
installed(r, cmd, out) ==
    IF out = "0"
    THEN nextPkg([r EXCEPT !.log = Append(@, [cmd |-> cmd, out |-> out]),
                           !.queue = Tail(@)])
    ELSE [r EXCEPT !.log = Append(@, [cmd |-> cmd, out |-> out]), !.pc = "done",
                   !.err = IF out = "spawn" THEN "exec: " \o Head(cmd) \o ": not found"
                           ELSE "Command " \o JoinFields(cmd) \o " exited with 1"]

\* The environment-keyed check commands and install commands of a configuration: no
\* key, a key that does not match, the wildcard, and two keys that both match.
CheckMaps ==
    {<<>>, ("b" :> <<"chk">>), ("" :> <<>>),
     ("a" :> <<"chk">> @@ "(.+)b" :> <<"alt", "chk">>)}

InstallMaps ==
    {("b" :> <<"ins">>), ("a" :> <<"ins">>), ("" :> <<"sudo", "ins">> @@ "b" :> <<"ins">>)}

\* The global package tables.
PackageTables ==
    {<<>>,
     ("p" :> ("a" :> <<"p1", "p2">>)),
     ("p" :> ("b" :> <<"x">>)),
     ("p" :> ("(.+)b" :> <<"p-$1">> @@ "" :> <<"w">>) @@ "q" :> ("" :> <<>>))}

\* The configurations: the bundles X and Y are declared, Z is not.
InstallConfigs ==
    {[CheckCmd |-> c, InstallCmd |-> i, Packages |-> t,
      Dots |-> [d \in {"X", "Y"} |-> IF d = "X" THEN x ELSE ("q" :> "shell")]] :
        c \in CheckMaps, i \in InstallMaps, t \in PackageTables,
        x \in {("p" :> "editor"), ("p" :> "editor" @@ "q" :> "shell")}}

\* A configuration and the arguments of estragon install [--dry] dots.
InstallInit ==
    /\ fs = [p \in Paths |-> "absent"]
    /\ ledger = <<>>
    /\ last = NoCall
    /\ runs = 0
    /\ arg \in [cfg : InstallConfigs, dots : {<<"X">>, <<"X", "Y">>, <<"X", "Z">>},
                dry : BOOLEAN]
    /\ res = [op |-> "none"]

\* conf.Packages(dot)
PackagesCall ==
    /\ res.op = "none"
    /\ \E dot \in {"X", "Z"} :
           \E o \in PackageOrders(arg.cfg, dot) :
               res' = [op |-> "Packages", dot |-> dot]
                          @@ Packages(arg.cfg, dot, o.names, o.keys)
    /\ UNCHANGED <<fs, ledger, last, runs, arg>>

\* conf.CheckCmd()
CheckCmdCall ==
    /\ res.op = "none"
    /\ \E ks \in Orders(DOMAIN arg.cfg.CheckCmd) :
           res' = [op |-> "CheckCmd", cmd |-> CheckCmd(arg.cfg, ks)]
    /\ UNCHANGED <<fs, ledger, last, runs, arg>>

\* conf.InstallCmd()
InstallCmdCall ==
    /\ res.op = "none"
    /\ \E ks \in Orders(DOMAIN arg.cfg.InstallCmd) :
           res' = [op |-> "InstallCmd", cmd |-> InstallCmd(arg.cfg, ks)]
    /\ UNCHANGED <<fs, ledger, last, runs, arg>>

\* RunSubcmd("install", dots) up to the loop of Install: the installer is made, its
\* error ends the run. res holds the position of the run (pc), the bundles and the
\* expanded names still to do, the names taken up so far, the commands run with what
\* they returned (log), and the error the run ended with.
installSubcmd ==
    /\ res.op = "none"
    /\ \E ck \in Orders(DOMAIN arg.cfg.CheckCmd), ik \in Orders(DOMAIN arg.cfg.InstallCmd) :
           res' = [op |-> "install",
                   pc |-> IF NewPackageInstaller(arg.cfg, ck, ik) = "nil"
                          THEN "dots" ELSE "done",
                   dots |-> arg.dots, queue |-> <<>>, names |-> <<>>, log |-> <<>>,
                   err |-> NewPackageInstaller(arg.cfg, ck, ik)]
    /\ UNCHANGED <<fs, ledger, last, runs, arg>>

\* installDotPackages(dot) up to its first command.
installDotPackages ==
    /\ res.op = "install" /\ res.pc = "dots" /\ res.dots # <<>>
    /\ \E o \in PackageOrders(arg.cfg, Head(res.dots)) :
           res' = listed(res, Packages(arg.cfg, Head(res.dots), o.names, o.keys),
                         arg.dry)
    /\ UNCHANGED <<fs, ledger, last, runs, arg>>

\* Install returns nil after the last bundle.
installReturn ==
    /\ res.op = "install" /\ res.pc = "dots" /\ res.dots = <<>>
    /\ res' = [res EXCEPT !.pc = "done"]
    /\ UNCHANGED <<fs, ledger, last, runs, arg>>

\* installPkg: runCmd(append(CheckCmd(), pkg)) returns out.
installPkgCheck ==
    /\ res.op = "install" /\ res.pc = "check"
    /\ \E ks \in Orders(DOMAIN arg.cfg.CheckCmd), out \in Outcomes :
           res' = checked(res, Append(CheckCmd(arg.cfg, ks), Head(res.queue)), out)
    /\ UNCHANGED <<fs, ledger, last, runs, arg>>

\* installPkg: runCmd(append(InstallCmd(), pkg)) returns out.
installPkgInstall ==
    /\ res.op = "install" /\ res.pc = "install"
    /\ \E ks \in Orders(DOMAIN arg.cfg.InstallCmd), out \in Outcomes :
           res' = installed(res, Append(InstallCmd(arg.cfg, ks), Head(res.queue)), out)
    /\ UNCHANGED <<fs, ledger, last, runs, arg>>

InstallNext ==
    \/ PackagesCall
    \/ CheckCmdCall
    \/ InstallCmdCall
    \/ installSubcmd
    \/ installDotPackages
    \/ installReturn
    \/ installPkgCheck
    \/ installPkgInstall

SpecInstall == InstallInit /\ [][InstallNext]_vars

\* The list is what expandPackage may give for the name: the name alone when the table
\* has no entry for it or Select chooses no key of its entry, else the list under
\* the chosen key with Replace applied to each string.
ExpandedAs(cfg, name, list) ==
    IF name \notin DOMAIN cfg.Packages THEN list = <<name>>
    ELSE \E sel \in Selectable(cfg.Packages[name]) :
             IF sel.key \notin DOMAIN cfg.Packages[name] THEN list = <<name>>
             ELSE /\ Len(list) = Len(cfg.Packages[name][sel.key])
                  /\ \A i \in 1..Len(list) :
                         list[i] = Replace(NewMatch(sel.key, sel.fields),
                                           cfg.Packages[name][sel.key][i])

\* C15: for a declared bundle Packages returns no error and one entry per package name
\* the bundle declares, with its description; the entry's list is the name alone
\* when the global table has no entry for the name or no key of its entry is
\* selected, and otherwise the strings under the selected key, each rewritten by
\* Replace. For a bundle that is not declared it returns an error and no entry.
C15_PackagesExpanded ==
    res.op = "Packages" =>
        IF res.dot \notin DOMAIN arg.cfg.Dots
        THEN res.err # "nil" /\ res.pkgs = <<>>
        ELSE /\ res.err = "nil"
             /\ Len(res.pkgs) = Cardinality(DOMAIN arg.cfg.Dots[res.dot])
             /\ {res.pkgs[i].Name : i \in 1..Len(res.pkgs)} = DOMAIN arg.cfg.Dots[res.dot]
             /\ \A i \in 1..Len(res.pkgs) :
                    /\ res.pkgs[i].Desc = arg.cfg.Dots[res.dot][res.pkgs[i].Name]
                    /\ ExpandedAs(arg.cfg, res.pkgs[i].Name, res.pkgs[i].List)

\* Packages("X"): p is expanded by the key (.+)b with a for $1, q has no table entry.
C15_Witness ==
    /\ res.op = "Packages"
    /\ arg.cfg.Packages = ("p" :> ("(.+)b" :> <<"p-$1">> @@ "" :> <<"w">>)
                            @@ "q" :> ("" :> <<>>))
    /\ res.pkgs = <<[Name |-> "p", Desc |-> "editor", List |-> <<"p-a">>],
                    [Name |-> "q", Desc |-> "shell", List |-> <<>>]>>

\* Select chooses no key of the environment-keyed map m, in whatever order.
NoneSelected(m) == \A sel \in Selectable(m) : sel.key \notin DOMAIN m

\* C16: CheckCmd returns the empty command when no key of the check-cmd map is
\* selected, and InstallCmd when no key of the install-cmd map is; the install
\* subcommand then ends with an error and has run no command.
C16_NoCommandNoInstall ==
    /\ res.op = "CheckCmd" /\ NoneSelected(arg.cfg.CheckCmd) => res.cmd = <<>>
    /\ res.op = "InstallCmd" /\ NoneSelected(arg.cfg.InstallCmd) => res.cmd = <<>>
    /\ /\ res.op = "install"
       /\ NoneSelected(arg.cfg.CheckCmd) \/ NoneSelected(arg.cfg.InstallCmd)
       => res.pc = "done" /\ res.err # "nil" /\ res.log = <<>>

\* The check-cmd map has a key, which does not match: the install run fails at once.
C16_Witness ==
    /\ res.op = "install"
    /\ arg.cfg.CheckCmd = ("b" :> <<"chk">>)
    /\ ~arg.dry
    /\ res.pc = "done" /\ res.err = "Empty check command" /\ res.log = <<>>

\* The last argument of a command that was run.
LastArg(e) == e.cmd[Len(e.cmd)]

\* The command run is a check command, an install command, of the configuration with
\* one more argument.
IsCheck(e) ==
    \E ks \in Orders(DOMAIN arg.cfg.CheckCmd) :
        e.cmd = Append(CheckCmd(arg.cfg, ks), LastArg(e))

IsInstall(e) ==
    \E ks \in Orders(DOMAIN arg.cfg.InstallCmd) :
        e.cmd = Append(InstallCmd(arg.cfg, ks), LastArg(e))

\* C17: in an install run without dry, the commands run are check and install
\* commands; the checks are run for the expanded names in order, each name as last
\* argument, for all of them when the run ends without error; the install command
\* follows a check, for the same name, exactly when the check exited non-zero; a
\* check that could not be started and an install that exited non-zero or could not
\* be started is the last command run, and the run ends with an error. With dry no
\* command is run.
C17_CheckThenInstall ==
    res.op = "install" =>
        LET log    == res.log
            checks == SelectSeq(log, IsCheck)
        IN  /\ arg.dry => log = <<>>
            /\ \A i \in 1..Len(log) : IsCheck(log[i]) \/ IsInstall(log[i])
            /\ Len(checks) <= Len(res.names)
            /\ \A i \in 1..Len(checks) : LastArg(checks[i]) = res.names[i]
            /\ res.pc = "done" /\ res.err = "nil"
                   => Len(checks) = Len(res.names) /\ res.dots = <<>>
            /\ \A i \in 1..Len(log) :
                   IsCheck(log[i])
                       => (log[i].out = "1"
                              <=> IF i = Len(log) THEN res.pc = "install"
                                  ELSE /\ IsInstall(log[i + 1])
                                       /\ LastArg(log[i + 1]) = LastArg(log[i]))
            /\ \A i \in 1..Len(log) :
                   IsInstall(log[i])
                       => /\ i > 1
                          /\ IsCheck(log[i - 1])
                          /\ log[i - 1].out = "1"
                          /\ LastArg(log[i - 1]) = LastArg(log[i])
            /\ \A i \in 1..Len(log) :
                   \/ IsCheck(log[i]) /\ log[i].out = "spawn"
                   \/ IsInstall(log[i]) /\ log[i].out # "0"
                   => i = Len(log) /\ res.pc = "done" /\ res.err # "nil"

\* p1 is checked, found missing and installed, p2 is checked and found installed.
C17_Witness ==
    /\ res.op = "install"
    /\ ~arg.dry
    /\ res.pc = "done" /\ res.err = "nil"
    /\ res.names = <<"p1", "p2">>
    /\ res.log = <<[cmd |-> <<"chk", "p1">>, out |-> "1"],
                   [cmd |-> <<"ins", "p1">>, out |-> "0"],
                   [cmd |-> <<"chk", "p2">>, out |-> "0"]>>

(***************************************************************************)
(* Deploying several bundles and running their deploy commands             *)
(* (SubcmdRunner.deploySubcmd, DotfileDeployer.DeployCmd)                  *)
(* A bundle of a run is [dot, l, cmds]: its name, its layout and the       *)
(* Deploy commands of its DotConfig. res holds the position of the run     *)
(* (pc), the bundles and the commands of the current bundle still to do,   *)
(* what was done so far (log: the bundles whose files DeployFiles deployed *)
(* and the commands run with what they returned) and the error the run     *)
(* ended with.                                                             *)
(***************************************************************************)

\* The deploy commands a bundle may declare; the variable U is not set.
DeployCmds == {<<>>, <<<<"c1">>>>, <<<<"c1">>, <<"c2", "*">>>>, <<<<"c3", "$U">>>>}

\* The layouts of the bundles: a link to /p/r, nothing to deploy, an invalid method.
CmdLayouts ==
    {l \in Layouts : l.Method \in {"deep", "none", "hard"} /\ l.Rules = <<>>}

\* The bundles estragon deploy is given: one, or two different ones in either order.
BundleLists ==
    {<<b>> : b \in [dot : Dots, l : CmdLayouts, cmds : DeployCmds]}
    \cup {<<b, c>> : b \in [dot : {"X"}, l : CmdLayouts, cmds : DeployCmds],
                     c \in [dot : {"Y"}, l : CmdLayouts, cmds : DeployCmds]}
    \cup {<<c, b>> : b \in [dot : {"X"}, l : CmdLayouts, cmds : DeployCmds],
                     c \in [dot : {"Y"}, l : CmdLayouts, cmds : DeployCmds]}

RECURSIVE expandArgs(_, _)
\* The loop of DeployCmd over the arguments of one command: each is expanded, the
\* first error ends it.
expandArgs(cmd, dot) ==
    IF cmd = <<>> THEN [err |-> "nil", cmd |-> <<>>]
    ELSE IF expand(Head(cmd), dot).err # "nil"
    THEN [err |-> expand(Head(cmd), dot).err, cmd |-> <<>>]
    ELSE [err |-> expandArgs(Tail(cmd), dot).err,
          cmd |-> IF expandArgs(Tail(cmd), dot).err # "nil" THEN <<>>
                  ELSE <<expand(Head(cmd), dot).s>> \o expandArgs(Tail(cmd), dot).cmd]

\* The loop of DeployCmd moves to the next command, or the loop of deploySubcmd to
\* the next bundle.
nextCmd(r) == IF r.cmds = <<>> THEN [r EXCEPT !.pc = "files", !.dots = Tail(@)] ELSE r

\* deploySubcmd after DeployFiles returned err for the first bundle left: the error
\* ends the run, else DeployCmd starts on the bundle's commands.
deployedFiles(r, err) ==
    IF err # "nil" THEN [r EXCEPT !.pc = "done", !.err = err]
    ELSE nextCmd([r EXCEPT !.pc = "cmd", !.cmds = Head(r.dots).cmds,
                           !.log = Append(@, [kind |-> "files",
                                              dot |-> Head(r.dots).dot])])

\* DeployCmd on a command whose non-zero exit is not looked at.
ranCmdAnyway(r, e, dry, out) ==
    IF e.err # "nil" THEN [r EXCEPT !.pc = "done", !.err = e.err]
    ELSE IF dry THEN nextCmd([r EXCEPT !.cmds = Tail(@)])
    ELSE IF out = "spawn"
    THEN [r EXCEPT !.pc = "done", !.err = "exec: " \o Head(e.cmd) \o ": not found",
                   !.log = Append(@, [kind |-> "cmd", dot |-> Head(r.dots).dot,
                                      cmd |-> e.cmd, out |-> out])]
    ELSE nextCmd([r EXCEPT !.cmds = Tail(@),
                           !.log = Append(@, [kind |-> "cmd", dot |-> Head(r.dots).dot,
                                              cmd |-> e.cmd, out |-> out])])

\* One round of the loop of DeployCmd: e is the expanded command or the error of
\* expanding it; unless dry it is run and returns out.
ranCmd(r, e, dry, out) ==
    IF e.err # "nil" THEN [r EXCEPT !.pc = "done", !.err = e.err]
    ELSE IF dry THEN nextCmd([r EXCEPT !.cmds = Tail(@)])
    ELSE IF out # "0"
    THEN [r EXCEPT !.pc = "done",
                   !.err = IF out = "spawn" THEN "exec: " \o Head(e.cmd) \o ": not found"
                           ELSE "Command " \o JoinFields(e.cmd) \o " returned 1",
                   !.log = Append(@, [kind |-> "cmd", dot |-> Head(r.dots).dot,
                                      cmd |-> e.cmd, out |-> out])]
    ELSE nextCmd([r EXCEPT !.cmds = Tail(@),
                           !.log = Append(@, [kind |-> "cmd", dot |-> Head(r.dots).dot,
                                              cmd |-> e.cmd, out |-> out])])

\* estragon deploy [--dry] [--force] dots, before the loop of deploySubcmd: nothing is
\* deployed, or the user has a file at /p/r.
DeployCmdInit ==
    /\ fs \in {[p \in Paths |-> "absent"],
               [p \in Paths |-> IF p = "/p/r" THEN "user"
                                ELSE IF p = "/p" THEN "dir" ELSE "absent"]}
    /\ ledger = <<>>
    /\ last = NoCall
    /\ runs = 0
    /\ arg \in [dots : BundleLists, dry : BOOLEAN, force : BOOLEAN]
    /\ res = [op |-> "deploy", pc |-> "files", dots |-> arg.dots, cmds |-> <<>>,
              log |-> <<>>, err |-> "nil"]

\* What DeployFiles did for the first bundle left is taken over.
bundleDeployed(d) ==
    /\ fs' = d.fs
    /\ ledger' = d.own
    /\ res' = deployedFiles(res, d.err)

\* The loop of deploySubcmd up to DeployCmd: the files of the next bundle.
deployBundleFiles ==
    /\ res.pc = "files" /\ res.dots # <<>>
    /\ \E ownOrder \in Orders(DOMAIN Resolved[Head(res.dots).dot][Head(res.dots).l].rs.map),
          depOrder \in Orders(DOMAIN Resolved[Head(res.dots).dot][Head(res.dots).l].rs.map) :
           bundleDeployed(DeployFiles(Head(res.dots).dot, Head(res.dots).l, arg.force,
                                      arg.dry, ownOrder, depOrder, ledger, fs))
    /\ UNCHANGED <<last, runs, arg>>

\* One round of the loop of DeployCmd: the next command of the bundle.
deployCmdRun ==
    /\ res.pc = "cmd"
    /\ \E out \in Outcomes :
           res' = ranCmd(res, expandArgs(Head(res.cmds), Head(res.dots).dot),
                         arg.dry, out)
    /\ UNCHANGED <<fs, ledger, last, runs, arg>>

\* deploySubcmd returns nil after the last bundle.
deployReturn ==
    /\ res.pc = "files" /\ res.dots = <<>>
    /\ res' = [res EXCEPT !.pc = "done"]
    /\ UNCHANGED <<fs, ledger, last, runs, arg>>

DeployCmdNext == deployBundleFiles \/ deployCmdRun \/ deployReturn

SpecDeployCmd == DeployCmdInit /\ [][DeployCmdNext]_vars

\* The place of a bundle in the list the run was given.
PlaceOf(dot) == CHOOSE k \in 1..Len(arg.dots) : arg.dots[k].dot = dot

\* The commands that were run for a bundle, in the order they were run.
CmdsRun(dot) == SelectSeq(res.log, LAMBDA e : e.kind = "cmd" /\ e.dot = dot)

\* The bundles whose files DeployFiles deployed without error, in that order.
FilesDeployed == SelectSeq(res.log, LAMBDA e : e.kind = "files")

\* C18: the bundles have their files deployed in the order given, one after another:
\* whatever is done for a bundle is done before anything is done for a later one, and
\* the files of a bundle are deployed only once every command of the bundle before
\* it has exited with 0 (not dry). The commands of a bundle are run only after
\* DeployFiles returned no error for it, and are its declared commands, expanded, in
\* order. A command that exits non-zero or cannot be started is the last thing the
\* run does, and the run ends with an error. With dry no command is run. A run that
\* ends without error has deployed every bundle and, unless dry, run every command.
C18_BundlesAndCommandsInOrder ==
    res.op = "deploy" =>
        LET log == res.log
        IN  /\ Len(FilesDeployed) <= Len(arg.dots)
            /\ \A k \in 1..Len(FilesDeployed) : FilesDeployed[k].dot = arg.dots[k].dot
            /\ \A i \in 1..Len(log), j \in 1..Len(log) :
                   i < j => PlaceOf(log[i].dot) <= PlaceOf(log[j].dot)
            /\ \A i \in 1..Len(log) :
                   log[i].kind = "cmd"
                       => \E j \in 1..(i - 1) :
                              log[j].kind = "files" /\ log[j].dot = log[i].dot
            /\ \A k \in 1..Len(arg.dots) :
                   /\ Len(CmdsRun(arg.dots[k].dot)) <= Len(arg.dots[k].cmds)
                   /\ \A n \in 1..Len(CmdsRun(arg.dots[k].dot)) :
                          CmdsRun(arg.dots[k].dot)[n].cmd
                              = expandArgs(arg.dots[k].cmds[n], arg.dots[k].dot).cmd
                   /\ k < Len(FilesDeployed) /\ ~arg.dry
                          => /\ Len(CmdsRun(arg.dots[k].dot)) = Len(arg.dots[k].cmds)
                             /\ \A n \in 1..Len(CmdsRun(arg.dots[k].dot)) :
                                    CmdsRun(arg.dots[k].dot)[n].out = "0"
            /\ \A i \in 1..Len(log) :
                   log[i].kind = "cmd" /\ log[i].out # "0"
                       => i = Len(log) /\ res.pc = "done" /\ res.err # "nil"
            /\ arg.dry => \A i \in 1..Len(log) : log[i].kind # "cmd"
            /\ res.pc = "done" /\ res.err = "nil"
                   => /\ Len(FilesDeployed) = Len(arg.dots)
                      /\ ~arg.dry
                             => \A k \in 1..Len(arg.dots) :
                                    Len(CmdsRun(arg.dots[k].dot)) = Len(arg.dots[k].cmds)

\* X is deployed and its two commands run, then Y is deployed and its command run.
C18_Witness ==
    /\ res.op = "deploy"
    /\ res.pc = "done" /\ res.err = "nil"
    /\ fs["/p/r"] = "X"
    /\ res.log = <<[kind |-> "files", dot |-> "X"],
                   [kind |-> "cmd", dot |-> "X", cmd |-> <<"c1">>, out |-> "0"],
                   [kind |-> "cmd", dot |-> "X", cmd |-> <<"c2", "X">>, out |-> "0"],
                   [kind |-> "files", dot |-> "Y"],
                   [kind |-> "cmd", dot |-> "Y", cmd |-> <<"c1">>, out |-> "0"]>>

(***************************************************************************)
(* Undeploying again after an undeploy that stopped                        *)
(***************************************************************************)

\* C19: when an undeploy of a bundle has stopped with an error after it removed some
\* of the bundle's paths, the bundle's ledger entry still being there, the next
\* undeploy of that bundle returns no error and removes the entry.
C19_UndeployAgainSucceeds ==
    [][(/\ last.op = "undeploy" /\ ~last.dry
        /\ last.err # "nil" /\ last.lost # {}
        /\ last.dot \in DOMAIN ledger
        /\ last'.op = "undeploy" /\ ~last'.dry /\ last'.dot = last.dot
        /\ runs' = runs + 1)
           => last'.err = "nil" /\ last.dot \notin DOMAIN ledger']_vars

(***************************************************************************)
(* A path that does not expand                                             *)
(***************************************************************************)

\* The file map the resolver of layout l builds before it expands the paths.
UnexpandedMap(l) ==
    IF l.Method \in {"deep", "copy"} THEN DeepFileMap(l.files, l.Rules, TRUE)
    ELSE IF l.Method = "shallow" /\ ~l.nilFiles THEN ShallowFileMap(l.files, l.Rules)
    ELSE <<>>

\* The source and destination paths of bundle dot under layout l, as they are handed
\* to the path expander.
HandedToExpander(dot, l) ==
    LET m == UnexpandedMap(l)
    IN  {Join(Join(EstragonDir, dot), f) : f \in DOMAIN m}
        \cup {IF m[f] # "" THEN m[f]
              ELSE Join(l.Root, IF l.Method = "shallow" THEN f
                                ELSE expandDotPrefixes(f)) : f \in DOMAIN m}

\* The errors the path expander reports for them, for each bundle and layout.
ExpanderErrors ==
    [dot \in Dots |->
        [l \in Layouts |->
            {expand(p, dot).err : p \in HandedToExpander(dot, l)} \ {"nil"}]]

\* The bundles and layouts with a path the expander reports an error for.
Unexpandable == {d \in Dots \X Layouts : ExpanderErrors[d[1]][d[2]] # {}}

\* C20: when the path expander reports an error for a source or destination path of
\* a bundle, the resolver of the bundle (DeepResolve, ShallowResolve) returns an error
\* the expander reported and no map, and a deploy of the bundle returns an error,
\* leaves the ledger and the file tree as they were and does not call EnsureOwnership.
C20_ExpansionErrorStopsDeploy ==
    [][\A d \in Unexpandable :
          (/\ last'.op = "deploy" /\ last'.dot = d[1] /\ last'.method = d[2].Method
           /\ deploySubcmd(d[1], d[2], last'.force, last'.dry))
          => /\ Resolved[d[1]][d[2]].rs.err \in ExpanderErrors[d[1]][d[2]]
             /\ Resolved[d[1]][d[2]].rs.isNil
             /\ Resolved[d[1]][d[2]].rs.map = <<>>
             /\ last'.err \in ExpanderErrors[d[1]][d[2]]
                              \cup ({Resolved[d[1]][d[2]].rootErr} \ {"nil"})
             /\ ~last'.ownCalled
             /\ last'.lost = {}
             /\ ledger' = ledger
             /\ fs' = fs]_vars

\* A shallow deploy has stopped at a rule value that does not expand, the ledger
\* holding the entry of an earlier deploy and its file being in place.
C20_Witness ==
    /\ last.op = "deploy" /\ last.method = "shallow" /\ ~last.dry
    /\ last.err = "Environment variable U is not set"
    /\ ledger # <<>>
    /\ \E p \in Paths : fs[p] \in Dots

(***************************************************************************)
(* The method of a bundle                                                  *)
(***************************************************************************)

ValidMethods == {"deep", "shallow", "copy", "none"}

\* What a deploy step of method none does: no error, nothing placed or removed, the
\* ledger as it was.
NoneDeployed ==
    last'.method = "none"
    => /\ last'.err = "nil"
       /\ ~last'.ownCalled
       /\ last'.lost = {}
       /\ ledger' = ledger
       /\ fs' = fs

NotOwnedError(p) == p \o " exists but is not owned by this directory"

\* C22: when EnsureOwnership fails for a path because the path exists and is not
\* owned, the path existed before the call, was not recorded under the deploying
\* bundle, force was not set, the path is after the call what it was before, and the
\* ledger is what it was before.
C22_RefusedPathKept ==
    [][\A p \in Paths :
          (/\ last'.op = "deploy" /\ runs' = runs + 1
           /\ last'.ownErr = NotOwnedError(p))
          => /\ fs[p] # "absent"
             /\ p \notin Range(OwnedOf(ledger, last'.dot))
             /\ ~last'.force
             /\ fs'[p] = fs[p]
             /\ ledger' = ledger]_vars

\* EnsureOwnership has refused a file of the user while the deploying bundle and
\* another one have ledger entries.
C22_Witness ==
    /\ last.op = "deploy" /\ ~last.dry
    /\ \E p \in Paths : last.ownErr = NotOwnedError(p) /\ fs[p] = "user"
    /\ last.dot \in DOMAIN ledger
    /\ DOMAIN ledger # {last.dot}

(***************************************************************************)
(* Splitting a key at its lone exclamation marks                           *)
(***************************************************************************)

\* The elements a key is written with, a lone "!" among them, and the number of
\* elements of a key at most.
KeyElements == {"a", "b", "!", "!b"}

MaxElements == 5

\* A key, before newPattern is called: its elements joined by single spaces.
PatternInit ==
    /\ fs = [p \in Paths |-> "absent"]
    /\ ledger = <<>>
    /\ last = NoCall
    /\ runs = 0
    /\ arg \in {[key |-> JoinFields(q)] : q \in SeqUpTo(KeyElements, MaxElements)}
    /\ res = [op |-> "none"]

\* p := newPattern(key)
newPatternCall ==
    /\ res.op = "none"
    /\ res' = [op |-> "newPattern"] @@ newPattern(arg.key)
    /\ UNCHANGED <<fs, ledger, last, runs, arg>>

PatternNext == newPatternCall

SpecPattern == PatternInit /\ [][PatternNext]_vars

\* The elements of q that are not a lone "!".
RECURSIVE WithoutLone(_)
WithoutLone(q) ==
    IF q = <<>> THEN <<>>
    ELSE IF Head(q) = "!" THEN WithoutLone(Tail(q))
    ELSE <<Head(q)>> \o WithoutLone(Tail(q))

\* The positions of the lone "!" elements of q.
LoneAt(q) == {i \in 1..Len(q) : q[i] = "!"}

\* The first of them.
FirstLone(q) == CHOOSE i \in LoneAt(q) : \A j \in LoneAt(q) : i <= j

\* C23: the required elements of a key are its elements before the first lone "!",
\* the forbidden elements are the elements after it without the lone "!" among them.
C23_LaterLoneIgnored ==
    res.op = "newPattern"
    => LET q == Fields(arg.key)
       IN  IF LoneAt(q) = {} THEN res.good = q /\ res.bad = <<>>
           ELSE /\ res.good = SubSeq(q, 1, FirstLone(q) - 1)
                /\ res.bad = WithoutLone(SubSeq(q, FirstLone(q) + 1, Len(q)))

(***************************************************************************)
(* Validating the environment (Config.ValidateEnv)                         *)
(* The selector's Matches is not among the sources: it is taken to be the  *)
(* verdict of patternFields on the key, as the matcher of section 4.1 of   *)
(* the specification gives it.                                             *)
(***************************************************************************)

\* EnvSelector.Matches.
Matches(env, key) == ~patternFields(env, newPattern(key)).isNil

\* envMatchesAny asking every listed environment to match.
envMatchesAll(env, l) == \A i \in 1..Len(l) : Matches(env, l[i])

\* Config.envMatchesAny.
envMatchesAny(env, l) == \E i \in 1..Len(l) : Matches(env, l[i])

RECURSIVE validateFrom(_, _, _, _)
\* The loop of ValidateEnv over the keys in the order the map is walked in, from
\* order[i]: the first matching key none of whose environments matches is the error.
validateFrom(env, validate, order, i) ==
    IF i > Len(order) THEN "nil"
    ELSE IF Matches(env, order[i]) /\ ~envMatchesAny(env, validate[order[i]])
    THEN "No match for environment found in validate key \"" \o order[i] \o "\""
    ELSE validateFrom(env, validate, order, i + 1)

ValidateEnv(env, validate, order) == validateFrom(env, validate, order, 1)

\* The environments, the keys of a validate map and the environments listed under a
\* key; a map without keys stands for the absent map too (a nil map is not walked).
ValidateEnvs == {<<>>, <<"a">>, <<"b", "a">>, <<"c">>}

ValidateKeys == {"", "a", "b", "a ! b", "c"}

ValidateListed == {"a", "b", "a ! b"}

\* The number of keys of a validate map and of environments under a key at most.
MaxValidateKeys == 2

MaxListed == 2

ValidateMaps ==
    UNION {[K -> SeqUpTo(ValidateListed, MaxListed)] :
              K \in {S \in SUBSET ValidateKeys : Cardinality(S) <= MaxValidateKeys}}

\* An environment and a validate map, before ValidateEnv is called.
ValidateInit ==
    /\ fs = [p \in Paths |-> "absent"]
    /\ ledger = <<>>
    /\ last = NoCall
    /\ runs = 0
    /\ arg \in [env : ValidateEnvs, validate : ValidateMaps]
    /\ res = [op |-> "none"]

\* err := conf.ValidateEnv()
ValidateEnvCall ==
    /\ res.op = "none"
    /\ \E order \in Orders(DOMAIN arg.validate) :
           res' = [op |-> "ValidateEnv", err |-> ValidateEnv(arg.env, arg.validate, order)]
    /\ UNCHANGED <<fs, ledger, last, runs, arg>>

ValidateNext == ValidateEnvCall

SpecValidate == ValidateInit /\ [][ValidateNext]_vars

\* The keys of the validate map that match the environment while none of the
\* environments listed under them does.
Unmet(env, validate) ==
    {k \in DOMAIN validate :
        /\ KeyMatches(env, k)
        /\ \A i \in 1..Len(validate[k]) : ~KeyMatches(env, validate[k][i])}

\* C24: ValidateEnv returns an error exactly when some key of the validate map matches
\* the environment while none of the environments listed under it does, and the error
\* names such a key; a map without keys passes.
C24_ValidateIffUnmet ==
    res.op = "ValidateEnv"
    => /\ res.err # "nil" <=> Unmet(arg.env, arg.validate) # {}
       /\ res.err # "nil"
          => \E k \in Unmet(arg.env, arg.validate) :
                res.err = "No match for environment found in validate key \"" \o k \o "\""
       /\ arg.validate = <<>> => res.err = "nil"

\* ValidateEnv has failed on a map with a key that does not match the environment and
\* a key that matches it and lists environments.
C24_Witness ==
    /\ res.op = "ValidateEnv" /\ res.err # "nil"
    /\ \E k \in DOMAIN arg.validate : ~KeyMatches(arg.env, k)
    /\ \E k \in Unmet(arg.env, arg.validate) : arg.validate[k] # <<>>

(***************************************************************************)
(* The configuration of a bundle that is not declared                      *)
(***************************************************************************)

\* The global environment-keyed layers that may be the selected one: those of the
\* keys that match the environment, else those of the wildcard keys, else none.
GlobalChoices(cfg) ==
    LET m        == cfg.Environments
        matching == {k \in DOMAIN m : ~wildcard(newPattern(k)) /\ KeyMatches(ConfEnv, k)}
        wild     == {k \in DOMAIN m : wildcard(newPattern(k))}
    IN  IF matching # {} THEN {m[k] : k \in matching}
        ELSE IF wild # {} THEN {m[k] : k \in wild}
        ELSE {ZeroCommon}

\* C25: for a bundle the configuration does not declare, method, root and dot prefix
\* are each the value of the first of the selected global environment layer and the
\* global settings that sets them (the dot prefix being true when neither does), and
\* Rules and Deploy are nil, whatever a declared bundle sets.
C25_UndeclaredIsGlobal ==
    res.op = "DotConfigUndeclared" =>
        /\ \E g \in GlobalChoices(arg.cfg) :
              /\ res.d.Method = FirstSet(<<g, arg.cfg.Common>>, "Method", "")
              /\ res.d.Root = FirstSet(<<g, arg.cfg.Common>>, "Root", "")
              /\ res.d.DotPrefix = (FirstSet(<<g, arg.cfg.Common>>, "DotPrefix", "nil")
                                       # "false")
        /\ res.d.Rules.isNil
        /\ res.d.Deploy.isNil

\* The configuration of the undeclared bundle has its method and dot prefix from the
\* selected global environment layer and its root from the global settings, while the
\* declared bundle sets another root.
C25_Witness ==
    /\ res.op = "DotConfigUndeclared"
    /\ "X" \in DOMAIN arg.cfg.Dots
    /\ arg.cfg.Dots["X"].Common.Root = "/q"
    /\ arg.cfg.Common.Method = "copy"
    /\ res.d.Method = "deep" /\ res.d.Root = "/p" /\ res.d.DotPrefix = FALSE

(***************************************************************************)
(* The order of the fields of the environment                              *)
(***************************************************************************)

\* The environments with the fields of env in another order (or the same).
Permuted(env) ==
    {[i \in 1..Len(env) |-> env[p[i]]] : p \in Orders(1..Len(env))}

\* C26: with the fields of the environment in any other order, every key of the list
\* matches the environment or fails to as before, and Select returns the same key.
C26_FieldOrderKeepsVerdict ==
    res.op = "Select"
    => \A e \in Permuted(arg.env) :
          /\ \A i \in 1..Len(arg.keys) :
                patternFields(e, newPattern(arg.keys[i])).isNil
                    = patternFields(arg.env, newPattern(arg.keys[i])).isNil
          /\ Select(e, arg.keys).key = res.key

\* Select has returned a key that matches, and with the fields in another order
\* the fields it returns differ.
C26_Witness ==
    /\ res.op = "Select"
    /\ ~res.fields.isNil
    /\ \E e \in Permuted(arg.env) : Select(e, arg.keys).fields # res.fields

(***************************************************************************)
(* What Undeploy leaves                                                    *)
(***************************************************************************)

\* C27: an undeploy that is not dry removes the bundle's ledger entry only when it
\* returns no error and every path the entry recorded, on disk before, is gone; one
\* that returns an error leaves the ledger as it was; an undeploy of a bundle without
\* entry returns no error and changes nothing; a dry undeploy removes no path and
\* leaves the ledger as it was.
C27_DisownAfterRemoval ==
    [][(last'.op = "undeploy" /\ runs' = runs + 1)
       => /\ (~last'.dry /\ last'.dot \in DOMAIN ledger /\ last'.dot \notin DOMAIN ledger')
             => /\ last'.err = "nil"
                /\ \A p \in Range(ledger[last'.dot]) : fs[p] # "absent" /\ fs'[p] = "absent"
                /\ \A d \in DOMAIN ledger \ {last'.dot} :
                      d \in DOMAIN ledger' /\ ledger'[d] = ledger[d]
          /\ (~last'.dry /\ last'.dot \in DOMAIN ledger /\ last'.err = "nil")
             => last'.dot \notin DOMAIN ledger'
          /\ last'.err # "nil" => ledger' = ledger
          /\ last'.dot \notin DOMAIN ledger
             => last'.err = "nil" /\ fs' = fs /\ ledger' = ledger
          /\ last'.dry => fs' = fs /\ ledger' = ledger /\ last'.lost = {}]_vars

\* An undeploy that is not dry has failed after it removed a path, and the ledger
\* holds the entries of the bundle and of another one.
C27_Witness ==
    /\ last.op = "undeploy" /\ ~last.dry
    /\ last.err # "nil" /\ last.lost # {}
    /\ last.dot \in DOMAIN ledger
    /\ DOMAIN ledger # {last.dot}

(***************************************************************************)
(* What EnsureOwnership records                                            *)
(***************************************************************************)

\* C28: after a deploy whose EnsureOwnership returned no error, the ledger records
\* under the bundle every path EnsureOwnership was given and every path it recorded
\* under the bundle before, and the entries of the other bundles are what they were.
C28_SuccessRecordsAll ==
    [][(/\ last'.op = "deploy" /\ runs' = runs + 1
        /\ last'.ownCalled /\ last'.ownErr = "nil")
       => /\ last'.dot \in DOMAIN ledger'
          /\ Range(last'.outFiles) \subseteq Range(ledger'[last'.dot])
          /\ Range(OwnedOf(ledger, last'.dot)) \subseteq Range(ledger'[last'.dot])
          /\ DOMAIN ledger' = DOMAIN ledger \cup {last'.dot}
          /\ \A d \in DOMAIN ledger \ {last'.dot} : ledger'[d] = ledger[d]]_vars

\* A forced deploy has taken a path that another bundle's entry records, the bundle
\* keeping a path it recorded before, and its EnsureOwnership returned no error.
C28_Witness ==
    /\ last.op = "deploy" /\ last.force /\ ~last.dry
    /\ last.ownCalled /\ last.ownErr = "nil"
    /\ \E p \in Range(last.outFiles) :
          /\ p \in last.lost
          /\ \E d \in DOMAIN ledger \ {last.dot} : p \in Range(ledger[d])
    /\ Range(ledger[last.dot]) # Range(last.outFiles)

(***************************************************************************)
(* One owner per path                                                      *)
(***************************************************************************)

\* C29: no path is recorded under two bundles of the ledger.
C29_OneOwnerPerPath ==
    \A d \in DOMAIN ledger : \A e \in DOMAIN ledger \ {d} :
        Range(ledger[d]) \cap Range(ledger[e]) = {}

(***************************************************************************)
(* What a failing EnsureOwnership has removed                              *)
(***************************************************************************)

\* C30 as stated: when EnsureOwnership returns an error, the file tree is what it was
\* before the call.
C30_ErrorRemovesNothing ==
    [][(/\ last'.op = "deploy" /\ runs' = runs + 1
        /\ last'.ownCalled /\ last'.ownErr # "nil")
       => fs' = fs]_vars

\* C30 with the paths before the failing one taken into account: when EnsureOwnership
\* returns an error, the error is that of a path of the list, that path is what it
\* was before the call, and every path that is not what it was is gone and is, or
\* lies below, a path that comes before the failing one in the list and was recorded
\* under the bundle or, with force set, was of any owner. With the failing path
\* first in the list nothing is removed.
C30_ErrorRemovesOnlyEarlierOwned ==
    [][(/\ last'.op = "deploy" /\ runs' = runs + 1
        /\ last'.ownCalled /\ last'.ownErr # "nil")
       => \E i \in 1..Len(last'.outFiles) :
             LET files == last'.outFiles
             IN  /\ last'.ownErr \in {NotOwnedError(files[i]),
                                      "stat " \o files[i] \o ": not a directory"}
                 /\ fs'[files[i]] = fs[files[i]]
                 /\ \A q \in Paths :
                       fs'[q] # fs[q]
                       => /\ fs'[q] = "absent"
                          /\ \E j \in 1..(i - 1) :
                                /\ q \in Tree(files[j])
                                /\ \/ files[j] \in Range(OwnedOf(ledger, last'.dot))
                                   \/ last'.force]_vars

\* EnsureOwnership has failed without force after it removed a path.
C30_Witness ==
    /\ last.op = "deploy" /\ ~last.force
    /\ last.ownCalled /\ last.ownErr # "nil"
    /\ last.lost # {}

====
